---- MODULE Spec2Model ----
(***************************************************************************)
(* Model of the Obsidian -> Quartz synchronisation engine (sync.mjs).      *)
(*                                                                         *)
(* A file name is a sequence of one-character strings, a path is a         *)
(* sequence of file names (its segments).  The source tree, the            *)
(* destination tree and the manifest document are the state; run() is a    *)
(* sequential process whose steps are its awaited file-system operations.  *)
(***************************************************************************)
EXTENDS Integers, Sequences, FiniteSets, TLC

\* Largest modification timestamp a source document can carry.
MaxTime == 2

\* File-system errors that may happen.
MaxFails == 1

----------------------------------------------------------------------------
\* File names and paths used by the model.

NameA == <<"a", ".", "m", "d">>
NameB == <<"b", ".", "m", "d">>
NameIndex == <<"i", ".", "m", "d">>
DirD == <<"d">>
Image == <<"i", "m", "a", "g", "e">>
DotDot == <<".", ".">>
Dot == <<".">>

\* "p 1.g": an image whose name holds a space.  "s.g": a plain image.
\* "m.g": an image that is nowhere in the source tree.
ImgP == <<"p", " ", "1", ".", "g">>
ImgS == <<"s", ".", "g">>
ImgM == <<"m", ".", "g">>

\* "p-1.g": an image whose name is the normalized name of "p 1.g".
ImgH == <<"p", "-", "1", ".", "g">>

\* Documents of the source tree: a.md at the root, d/b.md in a directory.
DocPaths == {<<NameA>>, <<DirD, NameB>>}

\* The image files of <source>/image.
ImgFiles == {ImgP, ImgS}

\* Order in which readdir lists <source>/image.
ImageDirOrder == <<ImgP, ImgH, ImgS>>

----------------------------------------------------------------------------
\* path helpers (node:path, POSIX flavour)

basename(p) == p[Len(p)]

dirname(p) == IF Len(p) <= 1 THEN <<Dot>> ELSE SubSeq(p, 1, Len(p) - 1)

\* path.normalize of a path relative to the source root: "." segments vanish,
\* a ".." segment takes the segment before it away; the root is the empty
\* path, and a path that leaves the root starts with "..".
RECURSIVE normalize(_, _)
normalize(done, p) ==
    IF p = <<>> THEN done
    ELSE IF Head(p) = Dot THEN normalize(done, Tail(p))
    ELSE IF Head(p) = DotDot /\ done # <<>> /\ done[Len(done)] # DotDot
         THEN normalize(SubSeq(done, 1, Len(done) - 1), Tail(p))
    ELSE normalize(Append(done, Head(p)), Tail(p))

\* path.join of two relative paths; the root itself is ".".
join(a, b) ==
    LET p == normalize(<<>>, a \o b) IN IF p = <<>> THEN <<Dot>> ELSE p

RECURSIVE LastDot(_)
LastDot(s) ==
    IF s = <<>> THEN 0
    ELSE IF s[Len(s)] = "." THEN Len(s)
    ELSE LastDot(SubSeq(s, 1, Len(s) - 1))

\* path.extname: from the last dot on; empty when there is no dot, when the
\* only dot is the first character, and for "..".
extname(b) ==
    LET i == LastDot(b) IN
    IF i = 0 \/ i = 1 \/ b = DotDot THEN <<>>
    ELSE SubSeq(b, i, Len(b))

----------------------------------------------------------------------------
\* slugifyBasename

IsSpace(c) == c \in {" ", "\t"}

\* One character of the name part, after the five replace() passes.
SlugChar(c) ==
    IF IsSpace(c) THEN <<"-">>
    ELSE IF c = "&" THEN <<"-", "a", "n", "d", "-">>
    ELSE IF c = "%" THEN <<"-", "p", "e", "r", "c", "e", "n", "t">>
    ELSE IF c \in {"?", "#"} THEN <<>>
    ELSE <<c>>

RECURSIVE SlugSeq(_)
SlugSeq(s) == IF s = <<>> THEN <<>> ELSE SlugChar(Head(s)) \o SlugSeq(Tail(s))

\* basename.slice(0, -ext.length): slice(0, -0) is slice(0, 0), the empty string.
SliceOffExt(b, ext) ==
    IF Len(ext) = 0 THEN <<>> ELSE SubSeq(b, 1, Len(b) - Len(ext))

slugifyBasename(b) ==
    LET ext == extname(b) IN SlugSeq(SliceOffExt(b, ext)) \o ext

Lower(c) == IF c = "P" THEN "p" ELSE IF c = "S" THEN "s" ELSE c

toLowerCase(s) == [i \in 1..Len(s) |-> Lower(s[i])]

----------------------------------------------------------------------------
\* Documents: a frontmatter block and a body of tokens.

\* Body tokens: a wiki embed ![[ref]], or a run of plain text.
Wiki(ref) == [t |-> "wiki", ref |-> ref]
MdImg(ref) == [t |-> "md", ref |-> ref]
Text == [t |-> "text", ref |-> <<>>]

\* Bodies a source document may have: plain text, an embed of a missing image
\* (like plain text, it resolves to no asset), and an embed of either image.
Bodies == { <<Text>>, <<Wiki(<<ImgM>>)>>, <<Wiki(<<ImgS>>)>>, <<Wiki(<<ImgP>>)>> }

\* a.md takes every body and every timestamp; d/b.md only differs in whether it
\* is publishable and whether it embeds the image a.md may embed too.
BodiesAt(p) == IF p = <<NameA>> THEN Bodies ELSE { <<Text>>, <<Wiki(<<ImgS>>)>> }

TimesAt(p) == IF p = <<NameA>> THEN 1..MaxTime ELSE {1}

Absent == [k |-> "none"]

\* A document is a file with the value its header block gives the publishable
\* key, a modification time and a body.
SrcDoc(fm, mtime, body) == [k |-> "file", fm |-> fm, mtime |-> mtime, body |-> body]

\* The engine reads nothing but the header of a document that is not
\* publishable: one such document stands for all.
Unpublished == SrcDoc("false", 1, <<Text>>)

SrcDocsAt(p) ==
    {Unpublished} \cup {SrcDoc("true", t, b) : t \in TimesAt(p), b \in BodiesAt(p)}

hasPublishableFrontmatter(doc) == doc.fm = "true"

\* The references of the tokens of one syntax, in order.
RECURSIVE RefsOf(_, _)
RefsOf(body, syntax) ==
    IF body = <<>> THEN <<>>
    ELSE (IF Head(body).t = syntax THEN <<Head(body).ref>> ELSE <<>>)
         \o RefsOf(Tail(body), syntax)

\* Insertion into a Set: a sequence without its repeated elements.
RECURSIVE Dedup(_)
Dedup(s) ==
    IF s = <<>> THEN <<>>
    ELSE LET rest == Dedup(SubSeq(s, 1, Len(s) - 1))
             x == s[Len(s)]
         IN IF \E i \in 1..Len(rest) : rest[i] = x THEN rest ELSE Append(rest, x)

\* Wiki embeds first, then markdown images.
extractAssetRefs(body) == Dedup(RefsOf(body, "wiki") \o RefsOf(body, "md"))

----------------------------------------------------------------------------
\* Asset resolution over the source tree.  imgs: the files of <source>/image;
\* docs: the documents present in the source tree.

NoPath == <<>>

\* A path segment for a name; the empty name adds no segment.
Seg(n) == IF n = <<>> THEN <<>> ELSE <<n>>

\* fs.access succeeds on files and on directories, the source root and the
\* directory it lies in among them.
SrcExists(imgs, docs, p) ==
    \/ p \in {<<Dot>>, <<DotDot>>}
    \/ p \in docs
    \/ \E n \in imgs : p = <<Image, n>>
    \/ p = <<Image>> /\ imgs # {}
    \/ \E d \in docs : Len(d) > 1 /\ p = dirname(d)

RECURSIVE FirstSlugMatch(_, _, _)
FirstSlugMatch(files, imgs, wantSlug) ==
    IF files = <<>> THEN NoPath
    ELSE IF Head(files) \in imgs
            /\ toLowerCase(slugifyBasename(Head(files))) = wantSlug
         THEN <<Image, Head(files)>>
         ELSE FirstSlugMatch(Tail(files), imgs, wantSlug)

findAssetFile(imgs, docs, mdDir, ref) ==
    LET base == basename(ref)
        slugified == slugifyBasename(base)
        c1 == join(<<Image>>, Seg(base))
        c2 == join(mdDir, ref)
        c3 == join(<<Image>>, Seg(slugified))
    IN IF SrcExists(imgs, docs, c1) THEN c1
       ELSE IF SrcExists(imgs, docs, c2) THEN c2
       ELSE IF SrcExists(imgs, docs, c3) THEN c3
       ELSE FirstSlugMatch(ImageDirOrder, imgs, toLowerCase(slugified))

\* listMdFiles: no hidden directory and no directory called image on the way,
\* and a name ending in .md.
EndsWithMd(n) == Len(n) >= 3 /\ SubSeq(n, Len(n) - 2, Len(n)) = <<".", "m", "d">>

Listed(p) ==
    /\ \A i \in 1..(Len(p) - 1) : p[i][1] # "." /\ p[i] # Image
    /\ EndsWithMd(basename(p))

RECURSIVE ResolveAll(_, _, _, _)

\* Mutant: a reference that resolves to nothing is kept among the assets.
RECURSIVE ResolveAllKeeping(_, _, _, _)
ResolveAllKeeping(imgs, docs, mdDir, refs) ==
    IF refs = <<>> THEN <<>>
    ELSE <<[ref |-> Head(refs), basename |-> basename(Head(refs)),
            slugifiedBasename |-> slugifyBasename(basename(Head(refs))),
            sourcePath |-> findAssetFile(imgs, docs, mdDir, Head(refs))]>>
         \o ResolveAllKeeping(imgs, docs, mdDir, Tail(refs))

ResolveAll(imgs, docs, mdDir, refs) ==
    IF refs = <<>> THEN <<>>
    ELSE LET ref == Head(refs)
             assetPath == findAssetFile(imgs, docs, mdDir, ref)
             rest == ResolveAll(imgs, docs, mdDir, Tail(refs))
         IN IF assetPath # NoPath
            THEN <<[ref |-> ref, basename |-> basename(ref),
                    slugifiedBasename |-> slugifyBasename(basename(ref)),
                    sourcePath |-> assetPath]>> \o rest
            ELSE rest

\* The Snapshot: publishable documents with their resolved assets.
getPublishableSet(tree, imgs) ==
    LET docs == {p \in DOMAIN tree : tree[p].k = "file"}
        keys == {p \in docs : Listed(p) /\ hasPublishableFrontmatter(tree[p])}
    IN [rel \in keys |->
          [mtime |-> tree[rel].mtime,
           content |-> tree[rel].body,
           assets |-> ResolveAll(imgs, docs, dirname(rel),
                                 extractAssetRefs(tree[rel].body))]]

----------------------------------------------------------------------------
\* convertContentForQuartz

ImageLink(slug) == MdImg(<<DotDot, Image>> \o Seg(slug))


\* Mutant: links are written with the file name as it stands in the embed.
convertRawNames(content, assets) ==
    [i \in 1..Len(content) |->
        IF content[i].t # "wiki" THEN content[i]
        ELSE MdImg(<<DotDot, Image>> \o Seg(basename(content[i].ref)))]

\* Mutant: the embeds of the resolved assets are rewritten, the others stay.
convertResolvedOnly(content, assets) ==
    [i \in 1..Len(content) |->
        LET tok == content[i] IN
        IF tok.t = "wiki" /\ \E j \in 1..Len(assets) : assets[j].ref = tok.ref
        THEN LET j == CHOOSE j \in 1..Len(assets) : assets[j].ref = tok.ref
             IN ImageLink(assets[j].slugifiedBasename)
        ELSE tok]

\* Every wiki embed becomes a markdown image under ../image/: the embeds of the
\* resolved assets by the first loop, the remaining ones by the fallback.
convertContentForQuartz(content, assets) ==
    [i \in 1..Len(content) |->
        LET tok == content[i] IN
        IF tok.t # "wiki" THEN tok
        ELSE IF \E j \in 1..Len(assets) : assets[j].ref = tok.ref
             THEN LET j == CHOOSE j \in 1..Len(assets) : assets[j].ref = tok.ref
                  IN ImageLink(assets[j].slugifiedBasename)
             ELSE ImageLink(slugifyBasename(basename(tok.ref)))]

----------------------------------------------------------------------------
\* The manifest document.

NoEntries == [x \in {} |-> 0]

\* What the manifest file holds: nothing, unparseable text, the text null, an
\* object without entries, or a manifest object.
ManifestFile(kind, entries) == [kind |-> kind, entries |-> entries]

\* readManifest: the parsed document, or an empty manifest when reading or
\* parsing throws.
readManifest(file) ==
    IF file.kind \in {"absent", "garbage"}
    THEN ManifestFile("ok", NoEntries)
    ELSE file

\* manifest.entries throws a TypeError on null.
EntriesThrows(manifest) == manifest.kind = "null"

\* manifest.entries || {}
EntriesOf(manifest) == IF manifest.kind = "ok" THEN manifest.entries ELSE NoEntries

\* JSON.stringify({ version: 1, entries })
writeManifest(entriesObj) == ManifestFile("ok", entriesObj)

----------------------------------------------------------------------------
\* The destination tree.

\* Hand-authored files of the destination: d/i.md, which no source document
\* maps to, and a.md, where the source document a.md is written.
ForeignFiles == {<<DirD, NameIndex>>, <<NameA>>}

AssetDest(slug) == <<Image>> \o Seg(slug)

DestPaths ==
    DocPaths \cup ForeignFiles \cup {AssetDest(slugifyBasename(n)) : n \in ImgFiles}

Foreign == [k |-> "foreign"]
Partial == [k |-> "partial"]
DocFile(body) == [k |-> "doc", body |-> body]
AssetFile(from) == [k |-> "asset", from |-> from]

SetOf(seq) == {seq[i] : i \in DOMAIN seq}

\* The directories mkdir(dirname(p), recursive) makes sure exist.
DirsOf(p) == IF Len(p) <= 1 THEN {} ELSE {SubSeq(p, 1, Len(p) - 1)}

VARIABLES
    src,          \* source documents: DocPaths -> Absent or a document
    dest,         \* destination files: DestPaths -> Absent or a file
    destDirs,     \* destination directories that exist
    disk,         \* the manifest file
    pc,           \* where run() stands: idle, read, delete, mkdir, sync, done, failed
    publishable,  \* run(): the Snapshot
    entries,      \* run(): the entries of the manifest that was read
    newEntries,   \* run(): the entries of the manifest to write
    delLeft,      \* run(): documents of toDeleteMd not yet deleted
    addLeft,      \* run(): Snapshot documents not yet visited by phase 2
    mf0,          \* the manifest file as it was when the run started
    failedAt,     \* the operation that made the run fail
    mfWrites,     \* manifest writes of the run
    touched,      \* destination paths the run has written, copied to or unlinked
    since,        \* since the source tree was last edited: "edited" (no run has
                  \* ended), "ok" (the last run succeeded), "failed" (it failed)
    fails,        \* file-system errors so far
    users,        \* per destination asset: the documents it was copied for
    before,       \* the destination as it was when the run started (for the
                  \* retry of a failed run: when the failed run started)
    other,        \* a second run(): its locals while the first one takes steps
    probe,        \* a file name and what the engine makes of it
    isRunning,    \* server: state.isRunning
    kids,         \* server: the runSync/runPublish calls not yet resolved
    late,         \* server: failed spawns whose 'close' event is still to come
    flows,        \* server: the combined flows (sync-and-publish, cron)
    watcherEnabled, \* server: state.watcherEnabled
    watcher,      \* server: the watcher variable holds a watcher
    alive,        \* server: watchers created and not closed
    halted,       \* server: "yes" when stopWatcher has returned and startWatcher
                  \* was not called since, "no" when it was; "off" where
                  \* this is not studied
    starting,     \* server: startWatcher calls that are loading the configuration
    timer,        \* server: syncDebounceTimer is set
    pending,      \* server: a notification no sync was spawned after yet
    quiet,        \* server: clock ticks since the last notification
    armed,        \* server: clock ticks since syncDebounceTimer was set
    calls,        \* server: runSync calls of the timer since the burst began
    burst,        \* server: the burst has one notification (1) or more (2)
    dash          \* server: the state record and taskLogs, where they are studied

engineVars == <<src, dest, destDirs, disk, pc, publishable, entries,
                newEntries, delLeft, addLeft, mf0, failedAt, mfWrites, touched,
                since, fails, users, before, other>>

srvVars == <<isRunning, kids, late, flows, watcherEnabled, watcher, alive, halted, starting,
             timer, pending, quiet, armed, calls, burst, dash>>

vars == <<engineVars, probe, srvVars>>

runVars == <<publishable, entries, newEntries, delLeft, addLeft>>
histVars == <<mf0, failedAt, mfWrites, touched>>

AssetPaths == {AssetDest(slugifyBasename(n)) : n \in ImgFiles}

NoManifest == ManifestFile("absent", NoEntries)

\* The record of the destination at the start of a run: kept where retries are
\* studied (on), left alone elsewhere.
Before(d, dirs) == [on |-> TRUE, dest |-> d, dirs |-> dirs, wrote |-> FALSE]
NoBefore == Before(<<>>, {})
Untracked == [on |-> FALSE, dest |-> <<>>, dirs |-> {}, wrote |-> FALSE]

\* At the end of a run: forgotten after a success; after a failure, with the
\* note whether the failed run had changed the destination.
AtRunEnd(b, p, t) ==
    IF ~b.on THEN b
    ELSE IF p = "done" THEN NoBefore
    ELSE [b EXCEPT !.wrote = @ \/ t # {}]

AtRunStart(b, s, d, dirs) == IF ~b.on \/ s = "failed" THEN b ELSE Before(d, dirs)

\* The locals and the history of a run() that is not taking steps, and the
\* number of times the two runs have taken turns.
Parked(p, snap, ents, new, del, add, m, f, w, t, n) ==
    [pc |-> p, publishable |-> snap, entries |-> ents, newEntries |-> new,
     delLeft |-> del, addLeft |-> add, mf0 |-> m, failedAt |-> f, mfWrites |-> w,
     touched |-> t, n |-> n]

NoOther == Parked("idle", NoEntries, NoEntries, NoEntries, {}, {}, NoManifest,
                  "none", 0, {}, 0)

\* No file name is being looked at.
NoProbe == [step |-> "none"]

\* The state record and the task log are left alone (NoDash) except where they
\* are studied.  on: they are kept; n: the clock, one tick a call; ret: what the
\* last runSync or runPublish call returned at once.
NoDash == [on |-> FALSE]

\* The dashboard server after start-up: no task, no flow, no watcher.
MaxKids == 2
MaxLate == 1

\* Watchers created or being created at a time.
MaxWatchers == 2

\* DEBOUNCE_MS in ticks of the clock.
DebounceTicks == 2
Slots == 1..MaxKids
Flows == {"sync-and-publish", "cron"}
FreeKid == [st |-> "free", kind |-> "none", owner |-> "none"]
IdleFlow == [at |-> "idle", syncRes |-> "none", report |-> "none"]

ServerIdle ==
    /\ isRunning = FALSE
    /\ kids = [s \in Slots |-> FreeKid]
    /\ late = 0
    /\ flows = [f \in Flows |-> IdleFlow]
    /\ watcherEnabled = FALSE
    /\ watcher = FALSE
    /\ alive = 0
    /\ starting = 0
    /\ timer = FALSE
    /\ pending = FALSE
    /\ quiet = DebounceTicks
    /\ armed = 0
    /\ calls = 0
    /\ burst = 0

ServerInit ==
    /\ ServerIdle
    /\ halted = "off"
    /\ dash = NoDash

EngineInit ==
    /\ src = [p \in DocPaths |-> Absent]
    /\ \E fs \in {{}, ForeignFiles} :
         /\ dest = [p \in DestPaths |-> IF p \in fs THEN Foreign ELSE Absent]
         /\ destDirs = {<<Dot>>} \cup UNION {DirsOf(p) : p \in fs}
    /\ \E kind \in {"absent", "garbage", "null", "noentries"} :
         disk = ManifestFile(kind, NoEntries)
    /\ pc = "idle"
    /\ publishable = NoEntries
    /\ entries = NoEntries
    /\ newEntries = NoEntries
    /\ delLeft = {}
    /\ addLeft = {}
    /\ mf0 = NoManifest
    /\ failedAt = "none"
    /\ mfWrites = 0
    /\ touched = {}
    /\ since = "edited"
    /\ fails = 0
    /\ users = [p \in AssetPaths |-> {}]
    /\ other = NoOther

Init ==
    /\ EngineInit
    /\ before = Untracked
    /\ probe = NoProbe
    /\ ServerInit

\* The same, with the destination recorded at the start of each run.
InitRetry ==
    /\ EngineInit
    /\ before = NoBefore
    /\ probe = NoProbe
    /\ ServerInit

----------------------------------------------------------------------------
\* The user edits the source tree between runs.

\* The source tree is edited until a file-system error happens; the runs after
\* it are retries on the source tree as it is.
\* A document is created, edited, or replaced by another file (of any
\* modification time: a moved or restored file keeps its own).
PutDoc(p, doc) ==
    /\ pc = "idle"
    /\ fails = 0
    /\ src[p] # doc
    /\ src' = [src EXCEPT ![p] = doc]
    /\ since' = "edited"
    /\ UNCHANGED <<dest, destDirs, disk, pc, runVars, histVars, fails, users>>
    /\ UNCHANGED <<before, other>>
    /\ UNCHANGED <<probe, srvVars>>

RemoveDoc(p) ==
    /\ pc = "idle"
    /\ fails = 0
    /\ src[p] # Absent
    /\ src' = [src EXCEPT ![p] = Absent]
    /\ since' = "edited"
    /\ UNCHANGED <<dest, destDirs, disk, pc, runVars, histVars, fails, users>>
    /\ UNCHANGED <<before, other>>
    /\ UNCHANGED <<probe, srvVars>>

----------------------------------------------------------------------------
\* run()

\* toDeleteMd: in the manifest but not in the Snapshot.
toDeleteMd(ents, snap) == {rel \in DOMAIN ents : rel \notin DOMAIN snap}


\* Mutant: no asset counts as referenced.
NoneStillReferenced(snap) == {}

\* assetsStillReferenced: image/<slug> of every resolved asset of the Snapshot.
assetsStillReferenced(snap) ==
    UNION {{AssetDest(snap[rel].assets[i].slugifiedBasename) :
              i \in DOMAIN snap[rel].assets} : rel \in DOMAIN snap}


\* Mutant: every asset of a deleted document is unlinked.
DeleteOpsAll(ents, snap, rel) == <<rel>> \o ents[rel].assets

\* The unlink calls phase 1 makes for one document, in order.
DeleteOps(ents, snap, rel) ==
    <<rel>> \o SelectSeq(ents[rel].assets,
                         LAMBDA a : a \notin assetsStillReferenced(snap))

Unlink(d, paths) == [p \in DOMAIN d |-> IF p \in paths THEN Absent ELSE d[p]]

\* History: an unlinked asset has no documents left it was copied for.
UsersAfterUnlink(u, paths) == [p \in DOMAIN u |-> IF p \in paths THEN {} ELSE u[p]]

\* History: the assets copied for a document count it among their documents.
UsersAfterCopy(u, paths, rel) ==
    [p \in DOMAIN u |-> IF p \in paths THEN u[p] \cup {rel} ELSE u[p]]

\* Lines 214: the scan of the source tree.
Scan ==
    /\ pc = "idle"
    /\ publishable' = getPublishableSet(src, ImgFiles)
    /\ mf0' = disk
    /\ pc' = "read"
    /\ failedAt' = "none"
    /\ mfWrites' = 0
    /\ touched' = {}
    /\ UNCHANGED <<src, dest, destDirs, disk, entries, newEntries, delLeft,
                   addLeft, since, fails, users>>
    /\ before' = AtRunStart(before, since, dest, destDirs)
    /\ UNCHANGED other
    /\ UNCHANGED <<probe, srvVars>>

\* Lines 215-224: the manifest is read and the delete set computed.
ReadManifest ==
    /\ pc = "read"
    /\ LET manifest == readManifest(disk) IN
       IF EntriesThrows(manifest)
       THEN /\ pc' = "failed"
            /\ failedAt' = "parse"
            /\ UNCHANGED <<entries, delLeft>>
       ELSE /\ entries' = EntriesOf(manifest)
            /\ delLeft' = toDeleteMd(entries', publishable)
            /\ pc' = "delete"
            /\ UNCHANGED failedAt
    /\ UNCHANGED <<src, dest, destDirs, disk, publishable, newEntries, addLeft,
                   mf0, mfWrites, touched, since, fails, users>>
    /\ UNCHANGED <<before, other>>
    /\ UNCHANGED <<probe, srvVars>>

\* Lines 225-242: one document of toDeleteMd and its unreferenced assets.
DeleteMd(rel) ==
    /\ pc = "delete"
    /\ rel \in delLeft
    /\ LET ops == DeleteOps(entries, publishable, rel) IN
       /\ dest' = Unlink(dest, SetOf(ops))
       /\ users' = UsersAfterUnlink(users, SetOf(ops))
       /\ touched' = touched \cup SetOf(ops)
    /\ delLeft' = delLeft \ {rel}
    /\ UNCHANGED <<src, destDirs, disk, pc, publishable, entries, newEntries,
                   addLeft, mf0, failedAt, mfWrites, since, fails>>
    /\ UNCHANGED <<before, other>>
    /\ UNCHANGED <<probe, srvVars>>

\* Lines 244-254: empty directories of the deleted documents are removed.
dirsToCheck(ents, snap) == {dirname(r) : r \in toDeleteMd(ents, snap)}

\* readdir lists nothing: no file and no directory right under dir.
IsEmptyDir(d, dirs, dir) ==
    /\ \A p \in DOMAIN d : dirname(p) = dir => d[p] = Absent
    /\ \A s \in dirs : s # dir => dirname(s) # dir


\* Mutant: the manifest is saved once phase 1 is over.
CleanDirsSaving ==
    /\ pc = "delete"
    /\ delLeft = {}
    /\ destDirs' = destDirs \ {d \in dirsToCheck(entries, publishable) :
                                 d # <<Dot>> /\ IsEmptyDir(dest, destDirs, d)}
    /\ disk' = writeManifest([r \in DOMAIN entries \cap DOMAIN publishable |-> entries[r]])
    /\ pc' = "mkdir"
    /\ UNCHANGED <<src, dest, runVars, histVars, since, fails, users>>
    /\ UNCHANGED <<before, other>>
    /\ UNCHANGED <<probe, srvVars>>

\* Mutant: the directories of the deleted documents are removed with all they
\* hold.
CleanDirsRecursive ==
    /\ pc = "delete"
    /\ delLeft = {}
    /\ destDirs' = destDirs \ (dirsToCheck(entries, publishable) \ {<<Dot>>})
    /\ dest' = [p \in DOMAIN dest |->
                  IF dirname(p) \in dirsToCheck(entries, publishable) \ {<<Dot>>}
                  THEN Absent ELSE dest[p]]
    /\ pc' = "mkdir"
    /\ UNCHANGED <<src, disk, runVars, histVars, since, fails, users>>
    /\ UNCHANGED <<before, other>>
    /\ UNCHANGED <<probe, srvVars>>

CleanDirs ==
    /\ pc = "delete"
    /\ delLeft = {}
    /\ destDirs' = destDirs \ {d \in dirsToCheck(entries, publishable) :
                                 d # <<Dot>> /\ IsEmptyDir(dest, destDirs, d)}
    /\ pc' = "mkdir"
    /\ UNCHANGED <<src, dest, disk, runVars, histVars, since, fails, users>>
    /\ UNCHANGED <<before, other>>
    /\ UNCHANGED <<probe, srvVars>>

\* Line 258: mkdir of <destination>/image.
MkdirImage ==
    /\ pc = "mkdir"
    /\ destDirs' = destDirs \cup {<<Image>>}
    /\ addLeft' = DOMAIN publishable
    /\ pc' = "sync"
    /\ UNCHANGED <<src, dest, disk, publishable, entries, newEntries, delLeft,
                   histVars, since, fails, users>>
    /\ UNCHANGED <<before, other>>
    /\ UNCHANGED <<probe, srvVars>>

----------------------------------------------------------------------------
\* Phase 2

HasPrev(ents, rel) == rel \in DOMAIN ents


\* Mutant: a timestamp that is not older counts as updated.
isUpdatedOrSame(prev, data) == data.mtime >= prev.mtime

\* prev && data.mtime > prev.mtime
isUpdated(prev, data) == data.mtime > prev.mtime

\* Mutant: the manifest lists the assets under the names of the embeds.
currAssetPathsRaw(data) ==
    [i \in DOMAIN data.assets |-> AssetDest(data.assets[i].basename)]

\* image/<slug> of each resolved asset, in order.
currAssetPaths(data) ==
    [i \in DOMAIN data.assets |-> AssetDest(data.assets[i].slugifiedBasename)]


\* Mutant: the asset sets are compared by size only.
assetsChangedBySize(prevAssets, data) ==
    Cardinality(SetOf(prevAssets)) # Cardinality(SetOf(currAssetPaths(data)))

\* The two Sets differ in size, or a current path is not a previous one.
assetsChanged(prevAssets, data) ==
    LET prevSet == SetOf(prevAssets)
        currSet == SetOf(currAssetPaths(data))
    IN \/ Cardinality(prevSet) # Cardinality(currSet)
       \/ \E a \in currSet : a \notin prevSet

\* Mutant: every document of the Snapshot is written again.
NeedsSyncAlways(ents, rel, data) == TRUE

\* Line 269 negated: the document is written again.
NeedsSync(ents, rel, data) ==
    IF ~HasPrev(ents, rel) THEN TRUE
    ELSE isUpdated(ents[rel], data) \/ assetsChanged(ents[rel].assets, data)

WithEntry(ents, rel, e) ==
    [r \in DOMAIN ents \cup {rel} |-> IF r = rel THEN e ELSE ents[r]]

\* The destination after the first n assets were copied; a later copy to the
\* same name overwrites an earlier one.
AfterCopies(d, assets, n) ==
    [p \in DOMAIN d |->
        LET idx == {j \in 1..n : AssetDest(assets[j].slugifiedBasename) = p} IN
        IF idx = {} THEN d[p]
        ELSE AssetFile(assets[CHOOSE j \in idx : \A i \in idx : i <= j].sourcePath)]

\* Line 288: the entry recorded for a document that was written.
NewEntry(data) == [mtime |-> data.mtime, assets |-> currAssetPaths(data)]



\* Mutant: a document left as it is gets no entry in the new manifest.
SyncDocNoCarry(rel) ==
    /\ pc = "sync"
    /\ rel \in addLeft
    /\ addLeft' = addLeft \ {rel}
    /\ LET data == publishable[rel] IN
       IF ~NeedsSync(entries, rel, data)
       THEN UNCHANGED <<newEntries, dest, destDirs, touched, users>>
       ELSE /\ destDirs' = destDirs \cup DirsOf(rel)
            /\ dest' = [AfterCopies(dest, data.assets, Len(data.assets))
                          EXCEPT ![rel] = DocFile(convertContentForQuartz(
                                                    data.content, data.assets))]
            /\ touched' = touched \cup {rel} \cup SetOf(currAssetPaths(data))
            /\ users' = UsersAfterCopy(users, SetOf(currAssetPaths(data)), rel)
            /\ newEntries' = WithEntry(newEntries, rel, NewEntry(data))
    /\ UNCHANGED <<src, disk, pc, publishable, entries, delLeft, mf0, failedAt,
                   mfWrites, since, fails>>
    /\ UNCHANGED <<before, other>>
    /\ UNCHANGED <<probe, srvVars>>

\* Mutant: the manifest file is rewritten after each document.
SyncDocEager(rel) ==
    /\ pc = "sync"
    /\ rel \in addLeft
    /\ addLeft' = addLeft \ {rel}
    /\ LET data == publishable[rel] IN
       IF ~NeedsSync(entries, rel, data)
       THEN /\ newEntries' = WithEntry(newEntries, rel, entries[rel])
            /\ UNCHANGED <<dest, destDirs, touched, users>>
       ELSE /\ destDirs' = destDirs \cup DirsOf(rel)
            /\ dest' = [AfterCopies(dest, data.assets, Len(data.assets))
                          EXCEPT ![rel] = DocFile(convertContentForQuartz(
                                                    data.content, data.assets))]
            /\ touched' = touched \cup {rel} \cup SetOf(currAssetPaths(data))
            /\ users' = UsersAfterCopy(users, SetOf(currAssetPaths(data)), rel)
            /\ newEntries' = WithEntry(newEntries, rel, NewEntry(data))
    /\ disk' = writeManifest(newEntries')
    /\ UNCHANGED <<src, pc, publishable, entries, delLeft, mf0, failedAt,
                   mfWrites, since, fails>>
    /\ UNCHANGED <<before, other>>
    /\ UNCHANGED <<probe, srvVars>>

\* Lines 260-289: one document of the Snapshot.
SyncDoc(rel) ==
    /\ pc = "sync"
    /\ rel \in addLeft
    /\ addLeft' = addLeft \ {rel}
    /\ LET data == publishable[rel] IN
       IF ~NeedsSync(entries, rel, data)
       THEN /\ newEntries' = WithEntry(newEntries, rel, entries[rel])
            /\ UNCHANGED <<dest, destDirs, touched, users>>
       ELSE /\ destDirs' = destDirs \cup DirsOf(rel)
            /\ dest' = [AfterCopies(dest, data.assets, Len(data.assets))
                          EXCEPT ![rel] = DocFile(convertContentForQuartz(
                                                    data.content, data.assets))]
            /\ touched' = touched \cup {rel} \cup SetOf(currAssetPaths(data))
            /\ users' = UsersAfterCopy(users, SetOf(currAssetPaths(data)), rel)
            /\ newEntries' = WithEntry(newEntries, rel, NewEntry(data))
    /\ UNCHANGED <<src, disk, pc, publishable, entries, delLeft, mf0, failedAt,
                   mfWrites, since, fails>>
    /\ UNCHANGED <<before, other>>
    /\ UNCHANGED <<probe, srvVars>>


\* Mutant: a run that changed nothing leaves the manifest file alone.
WriteManifestIfChanged ==
    /\ pc = "sync"
    /\ addLeft = {}
    /\ IF touched = {}
       THEN UNCHANGED <<disk, mfWrites>>
       ELSE /\ disk' = writeManifest(newEntries)
            /\ mfWrites' = mfWrites + 1
    /\ pc' = "done"
    /\ UNCHANGED <<src, dest, destDirs, runVars, mf0, failedAt, touched, since,
                   fails, users>>
    /\ UNCHANGED <<before, other>>
    /\ UNCHANGED <<probe, srvVars>>

\* Mutant: the entries of the file as it is are kept beside the new ones.
WriteManifestMerging ==
    /\ pc = "sync"
    /\ addLeft = {}
    /\ disk' = writeManifest([rel \in DOMAIN EntriesOf(readManifest(disk)) \cup DOMAIN newEntries |->
                                IF rel \in DOMAIN newEntries THEN newEntries[rel]
                                ELSE EntriesOf(readManifest(disk))[rel]])
    /\ mfWrites' = mfWrites + 1
    /\ pc' = "done"
    /\ UNCHANGED <<src, dest, destDirs, runVars, mf0, failedAt, touched, since,
                   fails, users>>
    /\ UNCHANGED <<before, other>>
    /\ UNCHANGED <<probe, srvVars>>

\* Line 291: the manifest is written, and run() returns.
WriteManifest ==
    /\ pc = "sync"
    /\ addLeft = {}
    /\ disk' = writeManifest(newEntries)
    /\ mfWrites' = mfWrites + 1
    /\ pc' = "done"
    /\ UNCHANGED <<src, dest, destDirs, runVars, mf0, failedAt, touched, since,
                   fails, users>>
    /\ UNCHANGED <<before, other>>
    /\ UNCHANGED <<probe, srvVars>>

\* The process has exited; its locals are gone.
Finish ==
    /\ pc \in {"done", "failed"}
    /\ pc' = "idle"
    /\ since' = IF pc = "done" THEN "ok" ELSE "failed"
    /\ publishable' = NoEntries
    /\ entries' = NoEntries
    /\ newEntries' = NoEntries
    /\ delLeft' = {}
    /\ addLeft' = {}
    /\ mf0' = NoManifest
    /\ failedAt' = "none"
    /\ mfWrites' = 0
    /\ touched' = {}
    /\ UNCHANGED <<src, dest, destDirs, disk, fails, users>>
    /\ before' = AtRunEnd(before, pc, touched)
    /\ UNCHANGED other
    /\ UNCHANGED <<probe, srvVars>>

----------------------------------------------------------------------------
\* File-system errors.  A failing write may leave its target as it was or
\* half written.

Abort(op) ==
    /\ pc' = "failed"
    /\ failedAt' = op

IOError(op) ==
    /\ fails < MaxFails
    /\ fails' = fails + 1
    /\ Abort(op)

\* readdir, readFile or stat throws during the scan.
ScanFail ==
    /\ pc = "idle"
    /\ IOError("scan")
    /\ mf0' = disk
    /\ mfWrites' = 0
    /\ touched' = {}
    /\ UNCHANGED <<src, dest, destDirs, disk, runVars, since, users>>
    /\ before' = AtRunStart(before, since, dest, destDirs)
    /\ UNCHANGED other
    /\ UNCHANGED <<probe, srvVars>>

\* The (n+1)-th unlink of a document's deletion throws something other than ENOENT.
DeleteMdFail(rel, n) ==
    /\ pc = "delete"
    /\ rel \in delLeft
    /\ LET ops == DeleteOps(entries, publishable, rel) IN
       /\ n < Len(ops)
       /\ dest' = Unlink(dest, SetOf(SubSeq(ops, 1, n)))
       /\ users' = UsersAfterUnlink(users, SetOf(SubSeq(ops, 1, n)))
       /\ touched' = touched \cup SetOf(SubSeq(ops, 1, n + 1))
    /\ IOError("unlink")
    /\ UNCHANGED <<src, destDirs, disk, runVars, mf0, mfWrites, since>>
    /\ UNCHANGED <<before, other>>
    /\ UNCHANGED <<probe, srvVars>>

\* readdir or rmdir throws for some directories: the error is ignored and the
\* directory stays.
CleanDirsErr(errs) ==
    /\ pc = "delete"
    /\ delLeft = {}
    /\ errs # {}
    /\ errs \subseteq dirsToCheck(entries, publishable) \ {<<Dot>>}
    /\ destDirs' = destDirs \ {d \in dirsToCheck(entries, publishable) \ errs :
                                 d # <<Dot>> /\ IsEmptyDir(dest, destDirs, d)}
    /\ pc' = "mkdir"
    /\ fails < MaxFails
    /\ fails' = fails + 1
    /\ UNCHANGED <<src, dest, disk, runVars, histVars, since, users>>
    /\ UNCHANGED <<before, other>>
    /\ UNCHANGED <<probe, srvVars>>

MkdirImageFail ==
    /\ pc = "mkdir"
    /\ IOError("mkdir")
    /\ UNCHANGED <<src, dest, destDirs, disk, runVars, mf0, mfWrites, touched,
                   since, users>>
    /\ UNCHANGED <<before, other>>
    /\ UNCHANGED <<probe, srvVars>>

AfterFailedWrite(d, p, partial) ==
    IF partial /\ p \in DOMAIN d THEN [d EXCEPT ![p] = Partial] ELSE d


\* Mutant: the manifest file gets the entry of the document before its files
\* are written.
SyncDocFailRecorded(rel, n, partial) ==
    /\ pc = "sync"
    /\ rel \in addLeft
    /\ LET data == publishable[rel]
           paths == currAssetPaths(data)
       IN
       /\ NeedsSync(entries, rel, data)
       /\ n <= Len(data.assets) + 1
       /\ IF n = 0
          THEN /\ ~partial
               /\ IOError("mkdir")
               /\ UNCHANGED <<dest, destDirs, touched, users>>
          ELSE /\ destDirs' = destDirs \cup DirsOf(rel)
               /\ dest' = AfterFailedWrite(
                            AfterCopies(dest, data.assets, n - 1),
                            IF n <= Len(paths) THEN paths[n] ELSE rel, partial)
               /\ users' = UsersAfterCopy(users, SetOf(SubSeq(paths, 1, n - 1)), rel)
               /\ touched' = touched \cup (IF n > Len(paths)
                                            THEN SetOf(paths) \cup {rel}
                                            ELSE SetOf(SubSeq(paths, 1, n)))
               /\ IOError(IF n <= Len(paths) THEN "copy" ELSE "write")
       /\ disk' = writeManifest(WithEntry(entries, rel, NewEntry(data)))
    /\ UNCHANGED <<src, runVars, mf0, mfWrites, since>>
    /\ UNCHANGED <<before, other>>
    /\ UNCHANGED <<probe, srvVars>>

\* Writing a document again fails: at mkdir (n = 0), at the n-th copy, or at the
\* write of the document (n = number of assets + 1).
SyncDocFail(rel, n, partial) ==
    /\ pc = "sync"
    /\ rel \in addLeft
    /\ LET data == publishable[rel]
           paths == currAssetPaths(data)
       IN
       /\ NeedsSync(entries, rel, data)
       /\ n <= Len(data.assets) + 1
       /\ IF n = 0
          THEN /\ ~partial
               /\ IOError("mkdir")
               /\ UNCHANGED <<dest, destDirs, touched, users>>
          ELSE /\ destDirs' = destDirs \cup DirsOf(rel)
               /\ dest' = AfterFailedWrite(
                            AfterCopies(dest, data.assets, n - 1),
                            IF n <= Len(paths) THEN paths[n] ELSE rel, partial)
               /\ users' = UsersAfterCopy(users, SetOf(SubSeq(paths, 1, n - 1)), rel)
               /\ touched' = touched \cup (IF n > Len(paths)
                                            THEN SetOf(paths) \cup {rel}
                                            ELSE SetOf(SubSeq(paths, 1, n)))
               /\ IOError(IF n <= Len(paths) THEN "copy" ELSE "write")
    /\ UNCHANGED <<src, disk, runVars, mf0, mfWrites, since>>
    /\ UNCHANGED <<before, other>>
    /\ UNCHANGED <<probe, srvVars>>

\* Writing the manifest fails; the file is as before or cut short.
WriteManifestFail(partial) ==
    /\ pc = "sync"
    /\ addLeft = {}
    /\ disk' = IF partial THEN ManifestFile("garbage", NoEntries) ELSE disk
    /\ IOError("manifest")
    /\ UNCHANGED <<src, dest, destDirs, runVars, mf0, mfWrites, touched, since, users>>
    /\ UNCHANGED <<before, other>>
    /\ UNCHANGED <<probe, srvVars>>

----------------------------------------------------------------------------

Edit ==
    \/ \E p \in DocPaths : \E doc \in SrcDocsAt(p) : PutDoc(p, doc)
    \/ \E p \in DocPaths : RemoveDoc(p)

RunOK ==
    \/ Scan
    \/ ReadManifest
    \/ \E rel \in DocPaths : DeleteMd(rel)
    \/ CleanDirs
    \/ MkdirImage
    \/ \E rel \in DocPaths : SyncDoc(rel)
    \/ WriteManifest
    \/ Finish

RunFail ==
    \/ ScanFail
    \/ \E rel \in DocPaths, n \in 0..Cardinality(ImgFiles) : DeleteMdFail(rel, n)
    \/ \E errs \in SUBSET {<<DirD>>} : CleanDirsErr(errs)
    \/ MkdirImageFail
    \/ \E rel \in DocPaths, n \in 0..(Cardinality(ImgFiles) + 1), partial \in BOOLEAN :
         SyncDocFail(rel, n, partial)
    \/ \E partial \in BOOLEAN : WriteManifestFail(partial)

\* Runs in which no file-system operation fails.
NextOK == Edit \/ RunOK

Next == Edit \/ RunOK \/ RunFail

\* Runs in which nothing but phase 2 fails.
NextRetry ==
    \/ Edit
    \/ RunOK
    \/ \E rel \in DocPaths, n \in 0..(Cardinality(ImgFiles) + 1), partial \in BOOLEAN :
         SyncDocFail(rel, n, partial)

\* Two invocations of run() at once: at an await of one, the other takes its
\* steps (a process that has not started is idle).
MaxYields == 2

Yield ==
    /\ other.n < MaxYields
    /\ pc # "idle" \/ other.pc # "idle"
    /\ pc' = other.pc
    /\ publishable' = other.publishable
    /\ entries' = other.entries
    /\ newEntries' = other.newEntries
    /\ delLeft' = other.delLeft
    /\ addLeft' = other.addLeft
    /\ mf0' = other.mf0
    /\ failedAt' = other.failedAt
    /\ mfWrites' = other.mfWrites
    /\ touched' = other.touched
    /\ other' = Parked(pc, publishable, entries, newEntries, delLeft, addLeft,
                       mf0, failedAt, mfWrites, touched, other.n + 1)
    /\ UNCHANGED <<src, dest, destDirs, disk, since, fails, users, before>>
    /\ UNCHANGED <<probe, srvVars>>

InitRace ==
    /\ Init
    /\ disk.kind = "absent"
    /\ dest[<<NameA>>] = Absent

\* The race is over a.md alone, with or without the plain image; once the
\* two runs have taken turns, each of them runs once and no more.
RaceDocs == {Unpublished} \cup {SrcDoc("true", t, b) : t \in 1..MaxTime,
                                                       b \in {<<Text>>, <<Wiki(<<ImgS>>)>>}}

NextRace ==
    \/ \E doc \in RaceDocs : PutDoc(<<NameA>>, doc)
    \/ RemoveDoc(<<NameA>>)
    \/ Scan
    \/ ReadManifest
    \/ \E rel \in DocPaths : DeleteMd(rel)
    \/ CleanDirs
    \/ MkdirImage
    \/ \E rel \in DocPaths : SyncDoc(rel)
    \/ WriteManifest
    \/ other.n = 0 /\ Finish
    \/ Yield

SpecRace == InitRace /\ [][NextRace]_vars

SpecOK == Init /\ [][NextOK]_vars

SpecRetry == InitRetry /\ [][NextRetry]_vars

Spec == Init /\ [][Next]_vars

----------------------------------------------------------------------------
\* File names.  One name at a time is normalized, normalized again, and
\* taken through the materialization of a document that embeds it.

MaxLen == 3

Alphabet == {"a", " ", "&", "%", "?", "#", ".", "-"}

FileNames == UNION {[1..k -> Alphabet] : k \in 1..MaxLen}

\* String.prototype.trim
RECURSIVE Trim(_)
Trim(s) ==
    IF s = <<>> THEN s
    ELSE IF IsSpace(Head(s)) THEN Trim(Tail(s))
    ELSE IF IsSpace(s[Len(s)]) THEN Trim(SubSeq(s, 1, Len(s) - 1))
    ELSE s

InitNames ==
    /\ Init
    /\ disk.kind = "absent"
    /\ dest[<<NameA>>] = Absent

\* "." and ".." name no file.
IsFileName(n) == n \notin {Dot, DotDot}

PickName(n) ==
    /\ probe.step = "none"
    /\ probe' = [step |-> "name", n |-> n]
    /\ UNCHANGED <<engineVars, srvVars>>

Normalize ==
    /\ probe.step = "name"
    /\ probe' = [step |-> "once", n |-> probe.n, once |-> slugifyBasename(probe.n)]
    /\ UNCHANGED <<engineVars, srvVars>>

NormalizeAgain ==
    /\ probe.step = "once"
    /\ probe' = [step |-> "twice", n |-> probe.n, once |-> probe.once,
                 twice |-> slugifyBasename(probe.once)]
    /\ UNCHANGED <<engineVars, srvVars>>

\* Lines 274-288 for a.md, new, whose body is the embed ![[n]] (the reference is
\* the trimmed text), with the file n in <source>/image.  A copy onto the image
\* directory itself throws.
Materialize ==
    /\ probe.step = "name"
    /\ IsFileName(probe.n)
    /\ Trim(probe.n) # <<>>
    /\ LET n == probe.n
           ref == <<Trim(n)>>
           tree == [p \in {<<NameA>>} |-> SrcDoc("true", 1, <<Wiki(ref)>>)]
           data == getPublishableSet(tree, {n})[<<NameA>>]
           names == {n, Trim(n), slugifyBasename(n), slugifyBasename(Trim(n)),
                     SlugSeq(Trim(n))} \ {<<>>}
           d0 == [p \in {<<Image, x>> : x \in names} |-> Absent]
           d1 == AfterCopies(d0, data.assets, Len(data.assets))
       IN IF \E i \in DOMAIN data.assets : data.assets[i].slugifiedBasename = <<>>
          THEN probe' = [step |-> "failed", n |-> n]
          ELSE probe' = [step |-> "written", n |-> n,
                         files |-> {p \in DOMAIN d1 : d1[p] # Absent},
                         entry |-> NewEntry(data).assets,
                         body |-> convertContentForQuartz(data.content, data.assets)]
    /\ UNCHANGED <<engineVars, srvVars>>

\* Names beside those over the alphabet: the images and references to them in
\* another case.
MoreNames == {ImgP, ImgH, ImgS, <<"P", " ", "1", ".", "g">>, <<"P", "-", "1", ".", "g">>}

\* Line 159 for the reference n of a document at the source root, with the files
\* imgs in <source>/image and the files there of the source tree.
Resolve ==
    /\ probe.step = "name"
    /\ \E imgs \in SUBSET (SetOf(ImageDirOrder) \cup (IF IsFileName(probe.n) THEN {probe.n} ELSE {})),
          there \in SUBSET ({<<<<"a">>, NameB>>}
                              \cup (IF IsFileName(probe.n) THEN {<<probe.n>>} ELSE {})) :
         probe' = [step |-> "resolved", n |-> probe.n, imgs |-> imgs, there |-> there,
                   found |-> findAssetFile(imgs, there, <<Dot>>, <<probe.n>>)]
    /\ UNCHANGED <<engineVars, srvVars>>

NextNames ==
    \/ \E n \in FileNames \cup MoreNames : PickName(n)
    \/ Normalize
    \/ NormalizeAgain
    \/ Materialize
    \/ Resolve

SpecNames == InitNames /\ [][NextNames]_vars

----------------------------------------------------------------------------
\* The text of a document, for hasPublishableFrontmatter.  A text is a sequence
\* of lines, a line a sequence of tokens: "---", the keys "K" (the first
\* accepted key) and "J" (the second), ":", " ", "true", "false", and "x" for
\* any other run of characters.

MaxLines == 4

TextLines ==
    { <<"---">>,                       \* a marker line
      <<"---", "x">>,                  \* three dashes and more on the line
      <<>>,                            \* an empty line
      <<"K", ":", " ", "true">>,       \* the first key set to true
      <<"J", ":", "true">>,            \* the second key set to true
      <<"K", ":", " ", "false">>,      \* the first key set to false
      <<"x", "K", ":", " ", "true">>,  \* a longer key that ends in the first key
      <<"K", ":", " ", "true", "x">>,  \* a value that begins with true
      <<"x">> }                        \* other text

Texts == UNION {[1..k -> TextLines] : k \in 1..MaxLines}

\* The characters of the text: its lines with "\n" between them.
RECURSIVE Flatten(_)
Flatten(lines) ==
    IF lines = <<>> THEN <<>>
    ELSE IF Len(lines) = 1 THEN lines[1]
    ELSE lines[1] \o <<"\n">> \o Flatten(Tail(lines))

\* \s
IsWhite(tok) == tok \in {" ", "\n"}

AllWhite(s, from, to) == \A i \in from..to : IsWhite(s[i])

NoMatch == <<"no match">>

\* content.match(/^---\s*\n([\s\S]*?)\n---/): the first group of the match.
\* \s* is greedy and gives back: the "\n" after it is the last one after
\* which the rest still matches; the group is lazy and ends at the first
\* "\n---" from there on.
FRONTMATTER_REGEX(s) ==
    LET closers(i) == {e \in (i + 1)..(Len(s) - 1) : s[e] = "\n" /\ s[e + 1] = "---"}
        breaks == {i \in 2..Len(s) :
                      /\ s[i] = "\n"
                      /\ AllWhite(s, 2, i - 1)
                      /\ closers(i) # {}}
    IN IF s = <<>> \/ s[1] # "---" \/ breaks = {} THEN NoMatch
       ELSE LET i == CHOOSE i \in breaks : \A j \in breaks : j <= i
                e == CHOOSE e \in closers(i) : \A f \in closers(i) : e <= f
            IN SubSeq(s, i + 1, e - 1)

\* /(?:K|J)\s*:\s*true/.test(s)
PUBLISHABLE_REGEX(s) ==
    \E a, b, c \in DOMAIN s :
        /\ a < b /\ b < c
        /\ s[a] \in {"K", "J"}
        /\ AllWhite(s, a + 1, b - 1)
        /\ s[b] = ":"
        /\ AllWhite(s, b + 1, c - 1)
        /\ s[c] = "true"

\* hasPublishableFrontmatter on the text of a document.
hasPublishableText(content) ==
    LET match == FRONTMATTER_REGEX(Flatten(content)) IN
    IF match = NoMatch THEN FALSE ELSE PUBLISHABLE_REGEX(match)

InitTexts ==
    /\ Init
    /\ disk.kind = "absent"
    /\ dest[<<NameA>>] = Absent

PickText(t) ==
    /\ probe.step = "none"
    /\ probe' = [step |-> "text", text |-> t]
    /\ UNCHANGED <<engineVars, srvVars>>

\* Line 153 for a document with the text picked.
Classify ==
    /\ probe.step = "text"
    /\ probe' = [step |-> "classified", text |-> probe.text,
                 publishable |-> hasPublishableText(probe.text)]
    /\ UNCHANGED <<engineVars, srvVars>>

\* Places of the source tree a document can be at: the root, a directory, a
\* directory in a directory, the image directory of the root, a directory
\* called image further down, hidden directories, and files whose name is
\* hidden or does not end in .md.
DirE == <<"e">>
DirHidden == <<".", "h">>
NameTxt == <<"b", ".", "t", "x", "t">>
NameHidden == <<".", "b", ".", "m", "d">>

TreePaths ==
    { <<NameA>>, <<DirD, NameB>>, <<DirD, DirE, NameB>>,
      <<Image, NameB>>, <<DirD, Image, NameB>>, <<DirD, Image, DirE, NameB>>,
      <<DirHidden, NameB>>, <<DirD, DirHidden, NameB>>,
      <<NameHidden>>, <<DirD, NameHidden>>, <<NameTxt>>, <<DirD, NameTxt>>,
      <<Image, NameTxt>> }

PickTree(paths, fm) ==
    /\ probe.step = "none"
    /\ probe' = [step |-> "tree", paths |-> paths, fm |-> fm]
    /\ UNCHANGED <<engineVars, srvVars>>

\* Line 214 for a source tree with one document at each of the paths picked,
\* all of them publishable or all of them not.
Traverse ==
    /\ probe.step = "tree"
    /\ probe' = [step |-> "scanned", paths |-> probe.paths, fm |-> probe.fm,
                 keys |-> DOMAIN getPublishableSet(
                                    [p \in probe.paths |-> SrcDoc(probe.fm, 1, <<Text>>)], {})]
    /\ UNCHANGED <<engineVars, srvVars>>

NextTexts ==
    \/ \E t \in Texts : PickText(t)
    \/ Classify
    \/ \E paths \in {ps \in SUBSET TreePaths : Cardinality(ps) \in 1..2}, fm \in {"true", "false"} :
         PickTree(paths, fm)
    \/ Traverse

SpecTexts == InitTexts /\ [][NextTexts]_vars

----------------------------------------------------------------------------
\* The dashboard server (server.mjs): runSync, runPublish, the two combined
\* flows, the watcher with its debounce timer.  Each handler runs to its next
\* await in one step.

InFlight == {s \in Slots : kids[s].st = "run"}

HasFree == \E s \in Slots : kids[s].st = "free"

FirstFree == CHOOSE s \in Slots :
                 kids[s].st = "free" /\ \A t \in Slots : kids[t].st = "free" => s <= t

Kid(st, kind, owner) == [st |-> st, kind |-> kind, owner |-> owner]

\* The state record and the task log of a server that has just started.
MAX_TASK_LOGS == 50
MaxCalls == 3

Dash0 ==
    [on |-> TRUE, n |-> 0, ret |-> "none",
     lastSyncAt |-> 0, lastSync |-> "null",
     lastPublishAt |-> 0, lastPublish |-> "null",
     lastCronRunAt |-> 0, lastCron |-> "null",
     logs |-> <<>>]

\* A call can be made: the clock has ticks left.
CanCall == dash.on => dash.n < MaxCalls

\* appendLog, lines 158-161.
appendLog(logs, type, result) ==
    LET l == <<[type |-> type, result |-> result]>> \o logs
    IN IF Len(l) > MAX_TASK_LOGS THEN SubSeq(l, 1, Len(l) - 1) ELSE l

\* updateLastRunningLog, lines 163-168: the newest running entry of the type.
updateLastRunningLog(logs, type, result) ==
    LET hits == {i \in 1..Len(logs) : logs[i].type = type /\ logs[i].result = "running"}
    IN IF hits = {} THEN logs
       ELSE [logs EXCEPT ![CHOOSE i \in hits : \A j \in hits : i <= j].result = result]

ResultOf(ok) == IF ok THEN "success" ELSE "fail"

\* Mutant: the time of the call is recorded before the running task is seen.
RejectedStamping(d, kind) ==
    IF kind = "sync"
    THEN [d EXCEPT !.n = @ + 1, !.ret = "rejected", !.lastSyncAt = d.n + 1]
    ELSE [d EXCEPT !.n = @ + 1, !.ret = "rejected", !.lastPublishAt = d.n + 1]

\* Lines 194 and 229: a task is running, the call returns {ok: false, error}.
Rejected(d, kind) == [d EXCEPT !.n = @ + 1, !.ret = "rejected"]

\* Lines 195-197 and 230-232: the call is accepted; a call of a flow is not
\* logged (noLog).
Accepted(d, kind, owner) ==
    IF ~d.on THEN d
    ELSE LET e == [d EXCEPT !.n = @ + 1, !.ret = "pending"]
             f == IF kind = "sync" THEN [e EXCEPT !.lastSyncAt = d.n + 1]
                  ELSE [e EXCEPT !.lastPublishAt = d.n + 1]
         IN IF owner = "single"
            THEN [f EXCEPT !.logs = appendLog(@, kind, "running")]
            ELSE f

\* Lines 208-214, 216-222, 253-259 and 261-267: the task has ended.
Ended(d, kind, ok, logged) ==
    IF ~d.on THEN d
    ELSE LET e == IF kind = "sync" THEN [d EXCEPT !.lastSync = ResultOf(ok)]
                  ELSE [d EXCEPT !.lastPublish = ResultOf(ok)]
         IN IF logged
            THEN [e EXCEPT !.logs = updateLastRunningLog(@, kind, ResultOf(ok))]
            ELSE e

\* Lines 325-326 and 397: a flow begins.
FlowBegun(d, f) ==
    IF ~d.on THEN d
    ELSE LET e == IF f = "cron" THEN [d EXCEPT !.lastCronRunAt = d.n + 1] ELSE d
         IN [e EXCEPT !.logs = appendLog(@, f, "running")]

\* Lines 329-334, 337-340, 399-401 and 404: a flow reports.
FlowReported(d, f, ok) ==
    IF ~d.on THEN d
    ELSE LET e == IF f = "cron" THEN [d EXCEPT !.lastCron = ResultOf(ok)] ELSE d
         IN [e EXCEPT !.logs = updateLastRunningLog(@, f, ResultOf(ok))]

\* runSync, lines 193-203, when no task is running: the flag is set and the
\* child process spawned; a sync spawned now sees every change notified so far.
SyncSpawned(owner) ==
    /\ isRunning' = TRUE
    /\ kids' = [kids EXCEPT ![FirstFree] = Kid("run", "sync", owner)]
    /\ pending' = FALSE

\* runPublish, lines 228-235, when no task is running: the flag is set and the
\* configuration is being loaded.
PublishClaimed(slot, owner) ==
    /\ isRunning' = TRUE
    /\ kids' = [kids EXCEPT ![slot] = Kid("config", "publish", owner)]

\* POST /api/sync, lines 386-389.
ReqSync ==
    /\ ~isRunning
    /\ HasFree
    /\ CanCall
    /\ SyncSpawned("single")
    /\ dash' = Accepted(dash, "sync", "single")
    /\ UNCHANGED <<late, flows, watcherEnabled, watcher, alive, halted, starting, timer>>
    /\ UNCHANGED <<quiet, armed, calls, burst>>
    /\ UNCHANGED <<engineVars, probe>>

\* POST /api/publish, lines 391-394.
ReqPublish ==
    /\ ~isRunning
    /\ HasFree
    /\ CanCall
    /\ PublishClaimed(FirstFree, "single")
    /\ dash' = Accepted(dash, "publish", "single")
    /\ UNCHANGED <<late, flows, watcherEnabled, watcher, alive, halted, starting, timer, pending>>
    /\ UNCHANGED <<quiet, armed, calls, burst>>
    /\ UNCHANGED <<engineVars, probe>>

\* Lines 244-248: the configuration is loaded, the publish child is spawned.
ConfigLoaded(s) ==
    /\ kids[s].st = "config"
    /\ kids' = [kids EXCEPT ![s].st = "run"]
    /\ UNCHANGED <<isRunning, late, flows, watcherEnabled, watcher, alive, halted, starting,
                   timer, pending>>
    /\ UNCHANGED <<quiet, armed, calls, burst>>
    /\ UNCHANGED dash
    /\ UNCHANGED <<engineVars, probe>>

\* A combined flow starts (lines 396-402, 324-335): it is logged as running and
\* calls runSync, which rejects the call when a task is running.
FlowStart(f) ==
    /\ flows[f].at = "idle"
    /\ CanCall
    /\ IF isRunning
       THEN /\ flows' = [flows EXCEPT ![f] =
                           [at |-> "idle", syncRes |-> "rejected", report |-> "fail"]]
            /\ dash' = IF dash.on
                       THEN FlowReported(Rejected(FlowBegun(dash, f), "sync"), f, FALSE)
                       ELSE dash
            /\ UNCHANGED <<isRunning, kids, pending>>
       ELSE /\ HasFree
            /\ SyncSpawned(f)
            /\ dash' = Accepted(FlowBegun(dash, f), "sync", f)
            /\ flows' = [flows EXCEPT ![f] =
                           [at |-> "sync", syncRes |-> "none", report |-> "running"]]
    /\ UNCHANGED <<late, watcherEnabled, watcher, alive, halted, starting, timer>>
    /\ UNCHANGED <<quiet, armed, calls, burst>>
    /\ UNCHANGED <<engineVars, probe>>

\* What the caller awaiting the call does when it resolves with ok: a flow
\* whose sync went well calls runPublish (lines 336, 403), a flow whose sync
\* did not reports the failure, a flow whose publish is over reports its result.
Resolved(s, ok) ==
    LET f == kids[s].owner IN
    IF f \notin Flows
    THEN /\ isRunning' = FALSE
         /\ kids' = [kids EXCEPT ![s] = FreeKid]
         /\ dash' = Ended(dash, kids[s].kind, ok, TRUE)
         /\ UNCHANGED flows
    ELSE IF kids[s].kind = "sync" /\ ok
    THEN /\ PublishClaimed(s, f)
         /\ dash' = Accepted(Ended(dash, "sync", TRUE, FALSE), "publish", f)
         /\ flows' = [flows EXCEPT ![f].at = "publish", ![f].syncRes = "ok"]
    ELSE /\ isRunning' = FALSE
         /\ kids' = [kids EXCEPT ![s] = FreeKid]
         /\ dash' = FlowReported(Ended(dash, kids[s].kind, ok, FALSE), f, ok)
         /\ flows' = [flows EXCEPT ![f] =
                        [at |-> "idle",
                         syncRes |-> IF kids[s].kind = "sync" THEN "fail" ELSE @.syncRes,
                         report |-> IF ok THEN "success" ELSE "fail"]]

\* Mutant: a flow goes on to publish whatever its sync came to.
CloseIgnoringCode(s, code) ==
    /\ kids[s].st = "run"
    /\ IF kids[s].owner \in Flows /\ kids[s].kind = "sync"
       THEN /\ PublishClaimed(s, kids[s].owner)
            /\ dash' = Accepted(Ended(dash, "sync", code = 0, FALSE), "publish",
                                kids[s].owner)
            /\ flows' = [flows EXCEPT ![kids[s].owner].at = "publish",
                                      ![kids[s].owner].syncRes =
                                          IF code = 0 THEN "ok" ELSE "fail"]
       ELSE Resolved(s, code = 0)
    /\ UNCHANGED <<late, watcherEnabled, watcher, alive, halted, starting, timer, pending>>
    /\ UNCHANGED <<quiet, armed, calls, burst>>
    /\ UNCHANGED <<engineVars, probe>>

\* 'close' of a child process, lines 208-215 and 253-260.
Close(s, code) ==
    /\ kids[s].st = "run"
    /\ Resolved(s, code = 0)
    /\ UNCHANGED <<late, watcherEnabled, watcher, alive, halted, starting, timer, pending>>
    /\ UNCHANGED <<quiet, armed, calls, burst>>
    /\ UNCHANGED <<engineVars, probe>>

\* 'error' of a child process that could not be spawned, lines 216-223 and
\* 261-268; its 'close' event may still follow.
SpawnError(s) ==
    /\ kids[s].st = "run"
    /\ late < MaxLate
    /\ late' = late + 1
    /\ Resolved(s, FALSE)
    /\ UNCHANGED <<watcherEnabled, watcher, alive, halted, starting, timer, pending>>
    /\ UNCHANGED <<quiet, armed, calls, burst>>
    /\ UNCHANGED <<engineVars, probe>>

\* 'close' after 'error': the handler of lines 208-215 or 253-260 runs again;
\* the promise is resolved already.
LateClose ==
    /\ late > 0
    /\ late' = late - 1
    /\ isRunning' = FALSE
    /\ \E kind \in {"sync", "publish"}, logged \in BOOLEAN :
         dash' = Ended(dash, kind, FALSE, logged)
    /\ UNCHANGED <<kids, flows, watcherEnabled, watcher, alive, halted, starting, timer, pending>>
    /\ UNCHANGED <<quiet, armed, calls, burst>>
    /\ UNCHANGED <<engineVars, probe>>

\* startWatcher, lines 273-275: a call returns at once when the watcher
\* variable holds a watcher, and loads the configuration when it holds none,
\* whether or not another call is loading it.
StartWatcherBegin ==
    /\ IF watcher
       THEN /\ halted = "yes"
            /\ UNCHANGED starting
       ELSE /\ alive + starting < MaxWatchers
            /\ starting' = starting + 1
    /\ halted' = IF halted = "off" THEN halted ELSE "no"
    /\ UNCHANGED <<isRunning, kids, late, flows, watcherEnabled, watcher, alive, timer,
                   pending>>
    /\ UNCHANGED <<quiet, armed, calls, burst>>
    /\ UNCHANGED dash
    /\ UNCHANGED <<engineVars, probe>>

\* startWatcher, lines 276-284: the configuration is loaded; a watcher is
\* created and assigned to the watcher variable, whatever the variable holds.
StartWatcherEnd ==
    /\ starting > 0
    /\ starting' = starting - 1
    /\ watcher' = TRUE
    /\ alive' = alive + 1
    /\ watcherEnabled' = TRUE
    /\ UNCHANGED <<isRunning, kids, late, flows, halted, timer, pending>>
    /\ UNCHANGED <<quiet, armed, calls, burst>>
    /\ UNCHANGED dash
    /\ UNCHANGED <<engineVars, probe>>

\* stopWatcher, lines 299-311: the watcher the variable holds is closed, the
\* timer cleared.
StopWatcher ==
    /\ watcher \/ timer \/ watcherEnabled \/ halted = "no"
    /\ watcher' = FALSE
    /\ alive' = IF watcher THEN alive - 1 ELSE alive
    /\ halted' = IF halted = "off" THEN halted ELSE "yes"
    /\ timer' = FALSE
    /\ armed' = 0
    /\ watcherEnabled' = FALSE
    /\ pending' = FALSE
    /\ UNCHANGED <<isRunning, kids, late, flows, starting>>
    /\ UNCHANGED <<quiet, calls, burst, dash>>
    /\ UNCHANGED <<engineVars, probe>>

\* Mutant: a timer that is set is left to run.
scheduleSyncKeeping ==
    /\ timer' = TRUE
    /\ armed' = IF timer THEN armed ELSE 0

\* scheduleSync, lines 288-290 and 296: the timer that is set is cleared, a new
\* one is set to fire DEBOUNCE_MS from now.
scheduleSync ==
    /\ timer' = TRUE
    /\ armed' = 0

\* A change, add or unlink notification.  A notification that comes
\* DEBOUNCE_MS or more after the one before it begins a burst.
Notify ==
    /\ alive > 0
    /\ scheduleSync
    /\ quiet' = 0
    /\ calls' = IF quiet >= DebounceTicks THEN 0 ELSE calls
    /\ burst' = IF quiet >= DebounceTicks THEN 1 ELSE 2
    /\ pending' = watcherEnabled
    /\ UNCHANGED <<isRunning, kids, late, flows, watcherEnabled, watcher, alive, halted, starting, dash>>
    /\ UNCHANGED <<engineVars, probe>>

\* The debounce timer fires, lines 290-296, DEBOUNCE_MS after it was set or
\* later; runSync is called when the watcher is enabled.
TimerFire ==
    /\ timer
    /\ armed >= DebounceTicks
    /\ timer' = FALSE
    /\ armed' = 0
    /\ calls' = IF watcherEnabled /\ calls < 2 THEN calls + 1 ELSE calls
    /\ IF watcherEnabled /\ ~isRunning
       THEN /\ HasFree
            /\ SyncSpawned("single")
            /\ dash' = Accepted(dash, "sync", "single")
       ELSE /\ dash' = IF dash.on /\ watcherEnabled THEN Rejected(dash, "sync") ELSE dash
            /\ UNCHANGED <<isRunning, kids, pending>>
    /\ UNCHANGED <<late, flows, watcherEnabled, watcher, alive, halted, starting, quiet, burst>>
    /\ UNCHANGED <<engineVars, probe>>

\* Time passes.
Tick ==
    /\ quiet < DebounceTicks \/ (timer /\ armed < DebounceTicks)
    /\ quiet' = IF quiet < DebounceTicks THEN quiet + 1 ELSE quiet
    /\ armed' = IF timer /\ armed < DebounceTicks THEN armed + 1 ELSE armed
    /\ UNCHANGED <<isRunning, kids, late, flows, watcherEnabled, watcher, alive, halted, starting,
                   timer, pending, calls, burst, dash>>
    /\ UNCHANGED <<engineVars, probe>>

\* A runSync (POST /api/sync) or runPublish (POST /api/publish) call while a
\* task is running.
ReqRejected(kind) ==
    /\ isRunning
    /\ dash.on
    /\ dash.n < MaxCalls
    /\ dash' = Rejected(dash, kind)
    /\ UNCHANGED <<isRunning, kids, late, flows, watcherEnabled, watcher, alive, halted, starting,
                   timer, pending, quiet, armed, calls, burst>>
    /\ UNCHANGED <<engineVars, probe>>

InitServer ==
    /\ Init
    /\ disk.kind = "absent"
    /\ dest[<<NameA>>] = Absent

NextServer ==
    \/ ReqSync
    \/ ReqPublish
    \/ \E s \in Slots : ConfigLoaded(s)
    \/ \E f \in Flows : FlowStart(f)
    \/ \E s \in Slots, code \in {0, 1} : Close(s, code)
    \/ \E s \in Slots : SpawnError(s)
    \/ LateClose
    \/ (starting = 0 /\ StartWatcherBegin)
    \/ StartWatcherEnd
    \/ StopWatcher
    \/ Notify
    \/ TimerFire
    \/ Tick

SpecServer == InitServer /\ [][NextServer]_vars

\* The watcher with its timer and the syncs it starts, with startWatcher calls
\* that overlap.
InitWatcher ==
    /\ EngineInit
    /\ disk.kind = "absent"
    /\ dest[<<NameA>>] = Absent
    /\ before = Untracked
    /\ probe = NoProbe
    /\ ServerIdle
    /\ halted = "no"
    /\ dash = NoDash

NextWatcher ==
    \/ StartWatcherBegin
    \/ StartWatcherEnd
    \/ StopWatcher
    \/ Notify
    \/ TimerFire
    \/ Tick
    \/ ReqPublish
    \/ \E s \in Slots : ConfigLoaded(s)
    \/ \E s \in Slots, code \in {0, 1} : Close(s, code)

SpecWatcher == InitWatcher /\ [][NextWatcher]_vars

\* The tasks and the flows of the server, with the state record and the task
\* log kept.
InitDash ==
    /\ EngineInit
    /\ disk.kind = "absent"
    /\ dest[<<NameA>>] = Absent
    /\ before = Untracked
    /\ probe = NoProbe
    /\ ServerIdle
    /\ halted = "off"
    /\ dash = Dash0

NextDash ==
    \/ ReqSync
    \/ ReqPublish
    \/ \E kind \in {"sync", "publish"} : ReqRejected(kind)
    \/ \E s \in Slots : ConfigLoaded(s)
    \/ \E f \in Flows : FlowStart(f)
    \/ \E s \in Slots, code \in {0, 1} : Close(s, code)
    \/ \E s \in Slots : SpawnError(s)
    \/ LateClose

SpecDash == InitDash /\ [][NextDash]_vars

\* Child processes end, awaited configuration loads end, a set timer fires.
FairServer ==
    /\ \A s \in Slots : WF_vars(Close(s, 0) \/ Close(s, 1))
    /\ \A s \in Slots : WF_vars(ConfigLoaded(s))
    /\ WF_vars(StartWatcherEnd)
    /\ WF_vars(TimerFire)
    /\ WF_vars(Tick)

SpecServerLive == SpecServer /\ FairServer

----------------------------------------------------------------------------
\* Properties.

ManifestDocs(file) == DOMAIN file.entries

ManifestAssets(file) ==
    UNION {SetOf(file.entries[r].assets) : r \in DOMAIN file.entries}

ManifestPaths(file) == ManifestDocs(file) \cup ManifestAssets(file)

IsPublishable(rel) == src[rel].k = "file" /\ src[rel].fm = "true"

\* The body the destination is to hold: every wiki embed turned into an image
\* link to ../image/<normalized name>.
Rewritten(body) ==
    [i \in 1..Len(body) |->
        IF body[i].t = "wiki"
        THEN [t |-> "md",
              ref |-> <<DotDot, Image, slugifyBasename(basename(body[i].ref))>>]
        ELSE body[i]]

\* image/<normalized name> of the resolved assets of the Snapshot.
ReferencedBySnapshot ==
    UNION {{<<Image, slugifyBasename(basename(publishable[r].assets[i].ref))>> :
              i \in DOMAIN publishable[r].assets} : r \in DOMAIN publishable}

\* The documents of the manifest the run started from that are gone from the
\* Snapshot have no destination document.
DeletedAreAbsent ==
    \A rel \in ManifestDocs(mf0) : ~IsPublishable(rel) => dest[rel] = Absent

\* C1: a run that follows a successful run on an unchanged source tree writes,
\* copies and unlinks nothing in the destination, and writes the manifest it
\* found.
C1_Idempotence ==
    (pc = "done" /\ since = "ok") => (touched = {} /\ disk = mf0)

C1_Witness ==
    /\ pc = "done"
    /\ since = "ok"
    /\ Cardinality(DOMAIN publishable) = 2
    /\ \E rel \in DOMAIN publishable : Len(publishable[rel].assets) > 0

\* C2 as stated: after a successful run every publishable document has a
\* destination document holding its rewritten source body, and every document
\* of the previous manifest that is no longer publishable has none.
C2_Convergence ==
    pc = "done" =>
        /\ \A rel \in DocPaths :
             IsPublishable(rel) => dest[rel] = DocFile(Rewritten(src[rel].body))
        /\ DeletedAreAbsent

\* C2 amended: the documents a run finds new, strictly newer than recorded, or
\* with another set of asset paths than recorded hold their rewritten source
\* body; the documents gone from the Snapshot have no destination document.
C2_ConvergenceOfChanged ==
    pc = "done" =>
        /\ \A rel \in DocPaths :
             (/\ IsPublishable(rel)
              /\ \/ rel \notin ManifestDocs(mf0)
                 \/ src[rel].mtime > mf0.entries[rel].mtime
                 \/ SetOf(mf0.entries[rel].assets)
                      # {AssetDest(publishable[rel].assets[i].slugifiedBasename) :
                            i \in DOMAIN publishable[rel].assets})
             => dest[rel] = DocFile(Rewritten(src[rel].body))
        /\ DeletedAreAbsent

C2_Witness ==
    /\ pc = "done"
    /\ \E rel \in DocPaths :
         /\ IsPublishable(rel)
         /\ rel \in ManifestDocs(mf0)
         /\ src[rel].mtime > mf0.entries[rel].mtime
         /\ src[rel].body = <<Wiki(<<ImgP>>)>>
         /\ dest[rel] = DocFile(<<MdImg(<<DotDot, Image, <<"p", "-", "1", ".", "g">> >>)>>)
    /\ \E rel \in ManifestDocs(mf0) : ~IsPublishable(rel) /\ dest[rel] = Absent

\* C3: no step of phase 1 removes a destination asset that a resolved asset of
\* a Snapshot document names.
C3_RefCountSafety ==
    [][pc = "delete" =>
         \A p \in ReferencedBySnapshot : dest[p] # Absent => dest'[p] = dest[p]]_vars

C3_Witness ==
    /\ pc = "delete"
    /\ \E rel \in toDeleteMd(entries, publishable) \ delLeft :
         \E i \in DOMAIN entries[rel].assets :
            /\ entries[rel].assets[i] \in ReferencedBySnapshot
            /\ dest[entries[rel].assets[i]] # Absent

\* C4 as stated: once none of the documents an asset was copied for is
\* publishable any more, the asset is gone from the destination and from the
\* manifest at the end of the run.
C4_AssetRemoval ==
    pc = "done" =>
        \A p \in AssetPaths :
            (users[p] # {} /\ users[p] \cap DOMAIN publishable = {})
            => (dest[p] = Absent /\ p \notin ManifestAssets(disk))

\* C5 as stated: no step changes a hand-authored destination file that no
\* manifest entry names.
C5_NoClobber ==
    [][\A p \in DestPaths :
          (dest[p] = Foreign /\ p \notin ManifestPaths(disk)) => dest'[p] = Foreign]_vars

\* C6: between runs that all succeeded, every document and asset path the
\* manifest lists is a file of the destination, written by the tool.
C6_ManifestSound ==
    pc \in {"done", "idle"} =>
        /\ \A rel \in ManifestDocs(disk) : dest[rel].k = "doc"
        /\ \A a \in ManifestAssets(disk) : dest[a].k = "asset"

C6_Witness ==
    /\ pc = "done"
    /\ toDeleteMd(entries, publishable) # {}
    /\ \E rel \in ManifestDocs(disk) :
         /\ rel \notin touched
         /\ disk.entries[rel].assets # <<>>
         /\ \E gone \in toDeleteMd(entries, publishable) :
              entries[gone].assets = disk.entries[rel].assets

\* C7 as stated: after a successful run every document and asset file the
\* tool wrote that is still in the destination is listed in the manifest.
C7_NoOrphans ==
    pc = "done" =>
        \A p \in DestPaths : dest[p].k \in {"doc", "asset"} => p \in ManifestPaths(disk)

\* C8: the manifest file is written once, by the step that ends a successful
\* run, whether or not the run changed anything; until then it is as the run
\* found it.
C8_ManifestOnce ==
    /\ pc = "done" => (mfWrites = 1 /\ disk = ManifestFile("ok", newEntries))
    /\ pc \in {"read", "delete", "mkdir", "sync"} => (mfWrites = 0 /\ disk = mf0)

C8_Witness ==
    /\ pc = "done"
    /\ mfWrites = 1
    /\ touched = {}
    /\ disk = mf0
    /\ DOMAIN newEntries # {}

\* C9: a run in which the scan, an unlink, a mkdir, a copy or a document write
\* fails ends in failure with the manifest file as the run found it.
C9_FailureKeepsManifest ==
    failedAt \in {"scan", "unlink", "mkdir", "copy", "write"} =>
        (pc = "failed" /\ disk = mf0 /\ mfWrites = 0)

C9_Witness ==
    /\ pc = "failed"
    /\ failedAt = "write"
    /\ mf0.kind = "ok"
    /\ DOMAIN newEntries # {}
    /\ touched # {}

\* C10 as stated: whatever the manifest file holds that is no manifest, the
\* run does not fail on it and goes on as with an empty manifest: nothing to
\* delete, every publishable document written.
C10_MalformedManifestIsEmpty ==
    (pc \notin {"idle", "read"} /\ mf0.kind # "ok") =>
        /\ failedAt # "parse"
        /\ entries = NoEntries
        /\ delLeft = {}
        /\ pc = "done" => DOMAIN publishable \subseteq touched

HasSpecial(n) == \E i \in DOMAIN n : n[i] \in {" ", "&", "%", "?", "#"}

C12_Idempotent ==
    probe.step = "twice" => probe.twice = probe.once

\* A reference none of the resolution steps finds: no file of the source image
\* directory has its base name or its normalized name, and no source file is
\* at its relative path.
NotOnDisk(rel, ref) ==
    /\ \A n \in ImgFiles :
         /\ n # basename(ref)
         /\ toLowerCase(slugifyBasename(n)) # toLowerCase(slugifyBasename(basename(ref)))
    /\ \A d \in DocPaths : src[d] # Absent => join(dirname(rel), ref) # d

AllDangling(rel) ==
    /\ IsPublishable(rel)
    /\ \E i \in DOMAIN src[rel].body : src[rel].body[i].t = "wiki"
    /\ \A i \in DOMAIN src[rel].body :
         src[rel].body[i].t = "wiki" => NotOnDisk(rel, src[rel].body[i].ref)

\* The step in which phase 2 deals with a document.
Visits(rel) == pc = "sync" /\ rel \in addLeft /\ rel \notin addLeft'

C17_ManifestCoversSnapshot ==
    pc = "done" =>
        /\ disk.kind = "ok"
        /\ ManifestDocs(disk) = {rel \in DocPaths : IsPublishable(rel)}

C17_Witness ==
    /\ pc = "done"
    /\ \E r1, r2 \in ManifestDocs(disk) :
         /\ r1 \notin touched
         /\ disk.entries[r1] = mf0.entries[r1]
         /\ r2 \in touched
         /\ r2 \notin ManifestDocs(mf0)

\* The document is absent from the manifest, or recorded with an older
\* timestamp, or with another set of asset paths.
MustRematerialize(rel) ==
    IF rel \notin DOMAIN entries THEN TRUE
    ELSE \/ entries[rel].mtime < src[rel].mtime
         \/ SetOf(entries[rel].assets)
              # {<<Image, slugifyBasename(basename(publishable[rel].assets[i].ref))>> :
                    i \in DOMAIN publishable[rel].assets}

\* C18: the step in which phase 2 deals with a document copies its assets,
\* writes its rewritten body and records a new entry with the source timestamp
\* exactly when the document is absent from the manifest, recorded with an
\* older timestamp or with another asset set; otherwise it carries the entry
\* forward and changes nothing in the destination.
C18_Classification ==
    [][\A rel \in DocPaths :
          Visits(rel) =>
              IF MustRematerialize(rel)
              THEN /\ rel \in touched'
                   /\ dest'[rel] = DocFile(Rewritten(src[rel].body))
                   /\ \A i \in DOMAIN publishable[rel].assets :
                        dest'[<<Image, publishable[rel].assets[i].slugifiedBasename>>]
                          = AssetFile(publishable[rel].assets[i].sourcePath)
                   /\ newEntries'[rel].mtime = src[rel].mtime
                   /\ newEntries'[rel].assets =
                        [i \in DOMAIN publishable[rel].assets |->
                            <<Image, publishable[rel].assets[i].slugifiedBasename>>]
              ELSE /\ newEntries'[rel] = entries[rel]
                   /\ dest' = dest
                   /\ destDirs' = destDirs
                   /\ touched' = touched]_vars

C18_Witness ==
    /\ pc = "sync"
    /\ addLeft = {}
    /\ \E r1, r2 \in DOMAIN publishable :
         /\ r1 \in touched
         /\ r1 \in DOMAIN entries
         /\ src[r1].mtime > entries[r1].mtime
         /\ newEntries[r1].assets = entries[r1].assets
         /\ r2 \notin touched
         /\ newEntries[r2] = entries[r2]

\* The Snapshot documents phase 2 has classified (lines 261-269).
Classified ==
    IF pc = "sync" THEN DOMAIN publishable \ addLeft
    ELSE IF pc = "done" THEN DOMAIN publishable
    ELSE {}

\* C19 as stated: once a destination path has been changed, every Snapshot
\* document has been classified.
C19_DiffingBeforeMutation ==
    (touched # {} /\ pc # "failed") => Classified = DOMAIN publishable

\* C19 amended: the scan, the reading of the manifest and the delete set come
\* before the first change of the destination; the Snapshot and the entries
\* read do not change while the destination is changed; the manifest file is
\* as the run found it until every change of the destination is done.
C19_PhaseOrder ==
    [][(dest' # dest \/ destDirs' # destDirs) =>
          /\ pc \in {"delete", "mkdir", "sync"}
          /\ publishable = getPublishableSet(src, ImgFiles)
          /\ publishable' = publishable
          /\ entries' = entries
          /\ delLeft \subseteq DOMAIN entries \ DOMAIN publishable
          /\ disk = mf0
          /\ disk' = mf0]_vars

C19_Witness ==
    /\ pc = "sync"
    /\ touched # {}
    /\ addLeft # {}
    /\ Classified # {}
    /\ disk = mf0

\* What one run in which nothing fails makes of a source tree, a destination
\* and a manifest file.
RunOutcomeOf(snap, d0, dirs0, m0) ==
    LET ents == EntriesOf(readManifest(m0))
        gone == toDeleteMd(ents, snap)
        d1 == Unlink(d0, UNION {SetOf(DeleteOps(ents, snap, rel)) : rel \in gone})
        dirs1 == dirs0 \ {d \in {dirname(r) : r \in gone} :
                            d # <<Dot>> /\ IsEmptyDir(d1, dirs0, d)}
        again == {rel \in DOMAIN snap : NeedsSync(ents, rel, snap[rel])}
    IN [dest |-> [p \in DOMAIN d1 |->
                    IF p \in again
                    THEN DocFile(convertContentForQuartz(snap[p].content, snap[p].assets))
                    ELSE IF \E rel \in again : p \in SetOf(currAssetPaths(snap[rel]))
                    THEN LET rel == CHOOSE rel \in again :
                                       p \in SetOf(currAssetPaths(snap[rel]))
                             i == CHOOSE i \in DOMAIN snap[rel].assets :
                                       currAssetPaths(snap[rel])[i] = p
                         IN AssetFile(snap[rel].assets[i].sourcePath)
                    ELSE d1[p]],
        dirs |-> dirs1 \cup {<<Image>>} \cup UNION {DirsOf(rel) : rel \in again},
        manifest |-> writeManifest(
                       [rel \in DOMAIN snap |->
                          IF rel \in again THEN NewEntry(snap[rel]) ELSE ents[rel]])]

RunOutcome(tree, d0, dirs0, m0) ==
    RunOutcomeOf(getPublishableSet(tree, ImgFiles), d0, dirs0, m0)

\* C20: a successful run that follows runs aborted in phase 2, on the same
\* source tree, leaves the destination files, the destination directories and
\* the manifest as one successful run would have, started where the first
\* aborted run started.
C20_RetryConverges ==
    (pc = "done" /\ since = "failed" /\ before.on) =>
        LET one == RunOutcome(src, before.dest, before.dirs, mf0) IN
        /\ dest = one.dest
        /\ destDirs = one.dirs
        /\ disk = one.manifest

C20_Witness ==
    /\ pc = "done"
    /\ since = "failed"
    /\ before.on
    /\ before.wrote
    /\ mf0.kind = "ok"
    /\ Cardinality(touched) >= 3

\* C13 as stated: at most one child process (sync or publish) is in flight,
\* and while one is in flight no call claims a task.
C13_MutualExclusion ==
    /\ [](Cardinality(InFlight) <= 1)
    /\ [][InFlight # {} =>
            \A s \in Slots : kids[s].st = "free" => kids'[s].st = "free"]_vars

\* C14: the publish of a combined flow appears only in the step in which the
\* flow's own sync child closes with code 0; a flow whose sync was rejected or
\* failed is reported as failed, is over, and has no publish.
C14_PublishAfterSync ==
    /\ [](\A f \in Flows :
            /\ flows[f].at = "publish" => flows[f].syncRes = "ok"
            /\ flows[f].syncRes \in {"fail", "rejected"} =>
                 /\ flows[f].report = "fail"
                 /\ flows[f].at = "idle"
                 /\ \A s \in Slots : kids[s].owner # f)
    /\ [][\A f \in Flows, s \in Slots :
            (/\ kids'[s].owner = f /\ kids'[s].kind = "publish"
             /\ ~(kids[s].owner = f /\ kids[s].kind = "publish"))
            => /\ kids[s] = Kid("run", "sync", f)
               /\ flows'[f].syncRes = "ok"
               /\ \A t \in Slots \ {s} : kids[t].owner # f]_vars

C14_Witness ==
    \E f, g \in Flows :
        /\ flows[f].at = "publish"
        /\ \E s \in InFlight : kids[s] = Kid("run", "publish", f)
        /\ flows[g].syncRes = "rejected"
        /\ flows[g].report = "fail"

\* C15 as stated: a notification that arrives while the watcher is enabled is
\* followed by the spawning of a sync (or by the watcher being stopped).
C15_NotifiedLeadsToSync == pending ~> ~pending

\* C21 as stated: in phase 1, an unlink of a file that is not there is taken as
\* done and the run goes on; a file-system error of another kind, in an unlink
\* or in the removal of an empty directory, ends the run in failure.
C21_DeleteFailurePolicy ==
    [][pc = "delete" =>
         /\ \A rel \in delLeft \ delLeft' :
              dest[rel] = Absent => (pc' = "delete" /\ failedAt' = "none")
         /\ fails' > fails => (pc' = "failed" /\ failedAt' # "none")]_vars

\* The documents phase 1 of the run deletes: recorded in the manifest the run
\* started from and no longer publishable.
DeletedThisRun == {rel \in ManifestDocs(mf0) : ~IsPublishable(rel)}

\* Nothing is left right under the destination directory dir.
NothingUnder(dir) ==
    /\ \A p \in DestPaths : (Len(p) > 1 /\ SubSeq(p, 1, Len(p) - 1) = dir) => dest[p] = Absent
    /\ \A s \in destDirs : ~(Len(s) > 1 /\ SubSeq(s, 1, Len(s) - 1) = dir)

\* C22: the step that ends phase 1 removes the directories that held a
\* document deleted in the run and hold nothing now, leaves every other
\* directory and every file as it is, and never removes the destination root.
C22_EmptyDirCleanup ==
    [][(pc = "delete" /\ pc' = "mkdir") =>
          /\ \A dir \in destDirs :
               IF /\ dir # <<Dot>>
                  /\ \E rel \in DeletedThisRun : Len(rel) > 1 /\ SubSeq(rel, 1, Len(rel) - 1) = dir
                  /\ NothingUnder(dir)
               THEN dir \notin destDirs'
               ELSE dir \in destDirs'
          /\ destDirs' \subseteq destDirs
          /\ <<Dot>> \in destDirs'
          /\ dest' = dest]_vars

C22_Witness ==
    /\ pc = "mkdir"
    /\ DeletedThisRun = DocPaths
    /\ <<DirD>> \notin destDirs
    /\ <<Dot>> \in destDirs

\* The first file in the listing of the image directory whose normalized name
\* is the wanted one, whatever the case of the letters.
FirstListed(imgs, want) ==
    LET hits == {i \in DOMAIN ImageDirOrder :
                    /\ ImageDirOrder[i] \in imgs
                    /\ toLowerCase(slugifyBasename(ImageDirOrder[i])) = toLowerCase(want)}
    IN IF hits = {} THEN NoPath
       ELSE <<Image, ImageDirOrder[CHOOSE i \in hits : \A j \in hits : i <= j]>>

\* C23 as stated: the reference resolves to the file of its exact name in the
\* image directory, else to the file at its relative path, else to the file of
\* its normalized name in the image directory, else to the first file of the
\* image directory with that normalized name in any case, else to nothing.
C23_ResolutionOrder ==
    probe.step = "resolved" =>
        LET n == probe.n
            norm == slugifyBasename(n)
        IN probe.found =
             IF n \in probe.imgs THEN <<Image, n>>
             ELSE IF <<n>> \in probe.there THEN <<n>>
             ELSE IF norm \in probe.imgs THEN <<Image, norm>>
             ELSE FirstListed(probe.imgs \ {n, norm}, norm)

\* The wiki embeds of a publishable document that resolve to nothing.
Unresolved(rel) ==
    {i \in DOMAIN src[rel].body :
        src[rel].body[i].t = "wiki" /\ NotOnDisk(rel, src[rel].body[i].ref)}

\* C24 as stated: a document written by the run holds its unresolved embeds as
\* they are in the source.
C24_UnresolvedLeftAsIs ==
    pc = "done" =>
        \A rel \in touched \cap DOMAIN publishable :
            \A i \in Unresolved(rel) : dest[rel].body[i] = src[rel].body[i]

\* C24 amended: a document written by the run holds, in place of each
\* unresolved embed, an image link to ../image/<normalized base name>, and its
\* manifest entry lists no asset of that name.
C24_UnresolvedConverted ==
    pc = "done" =>
        \A rel \in touched \cap DOMAIN publishable :
            \A i \in Unresolved(rel) :
                LET name == slugifyBasename(basename(src[rel].body[i].ref)) IN
                /\ dest[rel].k = "doc"
                /\ dest[rel].body[i] = [t |-> "md", ref |-> <<DotDot, Image, name>>]
                /\ <<Image, name>> \notin SetOf(disk.entries[rel].assets)

C24_Witness ==
    /\ pc = "done"
    /\ <<NameA>> \in touched
    /\ src[<<NameA>>].body = <<Wiki(<<ImgM>>)>>
    /\ dest[<<NameA>>] = DocFile(<<MdImg(<<DotDot, Image, ImgM>>)>>)
    /\ mf0.kind = "ok"
    /\ <<NameA>> \in ManifestDocs(mf0)

\* The name without its extension.
NamePart(n) == SubSeq(n, 1, Len(n) - Len(extname(n)))

\* C25 as stated: the normalized name is the transformed name part followed by
\* the extension as it is, for names with and without an extension; a name part
\* that is not empty is not dropped.
C25_SlugResult ==
    probe.step = "once" =>
        /\ probe.once = SlugSeq(NamePart(probe.n)) \o extname(probe.n)
        /\ Len(probe.once) >= Len(extname(probe.n))
                                + Cardinality({i \in DOMAIN NamePart(probe.n) :
                                                  NamePart(probe.n)[i] \notin {"?", "#"}})

\* C26: the timer calls runSync at most once for a burst of notifications, and
\* only when DEBOUNCE_MS have passed since the last notification; the call
\* spawns one sync child, or none when a task is marked as running.
C26_DebounceCoalescing ==
    /\ [](calls <= 1)
    /\ [][calls' # calls /\ calls' > 0 =>
            /\ quiet >= DebounceTicks
            /\ ~timer'
            /\ Cardinality(InFlight') <= Cardinality(InFlight) + 1
            /\ isRunning => kids' = kids]_vars

C26_Witness ==
    /\ burst = 2
    /\ calls = 1
    /\ quiet = DebounceTicks
    /\ ~timer
    /\ ~pending
    /\ \E s \in InFlight : kids[s] = Kid("run", "sync", "single")

\* A line that is the marker and nothing else but blanks.
IsMarkerLine(line) ==
    /\ line # <<>>
    /\ line[1] = "---"
    /\ \A i \in 2..Len(line) : line[i] = " "

\* A line that sets one of the two keys to true.
SetsKeyTrue(line) == line \in {<<"K", ":", " ", "true">>, <<"J", ":", "true">>}

\* The lines of the header block: between the marker line that opens the text
\* and the next marker line.
HeaderLines(text) ==
    LET closing == {m \in 2..Len(text) : IsMarkerLine(text[m])} IN
    IF text = <<>> \/ ~IsMarkerLine(text[1]) \/ closing = {} THEN {}
    ELSE 2..((CHOOSE m \in closing : \A n \in closing : m <= n) - 1)

\* C27 as stated: a text is publishable exactly when it starts with a header
\* block between two marker lines in which a line sets one of the two keys to
\* true.
C27_Publishability ==
    probe.step = "classified" =>
        (probe.publishable <=> \E i \in HeaderLines(probe.text) : SetsKeyTrue(probe.text[i]))

\* A directory on the way to the file that the traversal is to skip: a hidden
\* one, or the image directory of the source root.
SkippedDir(p, i) == p[i][1] = "." \/ (i = 1 /\ p[i] = Image)

\* C28 as stated: the Snapshot has a key for exactly the publishable documents
\* whose name ends in .md and that lie neither in a hidden directory nor in
\* the image directory of the source root, and the key is the path from the
\* root.
C28_Traversal ==
    probe.step = "scanned" =>
        probe.keys = {p \in probe.paths :
                         /\ probe.fm = "true"
                         /\ EndsWithMd(p[Len(p)])
                         /\ \A i \in 1..(Len(p) - 1) : ~SkippedDir(p, i)}

\* C29: with two runs at once, each write of the manifest puts the writer's
\* own entries in place of the whole file, so that the file is as the run that
\* wrote last left it; once both runs are done it is the manifest of one of
\* them.
C29_LastWriterWins ==
    /\ [][disk' # disk =>
            /\ pc = "sync"
            /\ pc' = "done"
            /\ disk' = ManifestFile("ok", newEntries)]_vars
    /\ []((pc = "done" /\ other.pc = "done") =>
            disk \in {ManifestFile("ok", newEntries), ManifestFile("ok", other.newEntries)})

\* Both runs are done, the manifest is the one of the run that wrote last and
\* lists a path that the other run unlinked and that is gone.
C29_Witness ==
    /\ pc = "done"
    /\ other.pc = "done"
    /\ disk = ManifestFile("ok", newEntries)
    /\ disk # ManifestFile("ok", other.newEntries)
    /\ \E p \in ManifestDocs(disk) : p \in other.touched /\ dest[p] = Absent
    /\ \E p \in ManifestAssets(disk) : p \in other.touched /\ dest[p] = Absent

----------------------------------------------------------------------------
\* The earlier variant of the script, and the two variants run side by side on
\* one source tree, each on its own destination and manifest.

\* "S.g": the name of "s.g" in another case.
ImgU == <<"S", ".", "g">>

\* Earlier findAssetFile: image/<basename>, then beside the document.
findAssetFileEarlier(imgs, docs, mdDir, ref) ==
    LET inImage == join(<<Image>>, Seg(basename(ref)))
        inSameDir == join(mdDir, ref)
    IN IF SrcExists(imgs, docs, inImage) THEN inImage
       ELSE IF SrcExists(imgs, docs, inSameDir) THEN inSameDir
       ELSE NoPath

RECURSIVE ResolveAllEarlier(_, _, _, _)
ResolveAllEarlier(imgs, docs, mdDir, refs) ==
    IF refs = <<>> THEN <<>>
    ELSE LET ref == Head(refs)
             assetPath == findAssetFileEarlier(imgs, docs, mdDir, ref)
             rest == ResolveAllEarlier(imgs, docs, mdDir, Tail(refs))
         IN IF assetPath # NoPath
            THEN <<[ref |-> ref, basename |-> basename(ref),
                    sourcePath |-> assetPath]>> \o rest
            ELSE rest

getPublishableSetEarlier(tree, imgs) ==
    LET docs == {p \in DOMAIN tree : tree[p].k = "file"}
        keys == {p \in docs : Listed(p) /\ hasPublishableFrontmatter(tree[p])}
    IN [rel \in keys |->
          [mtime |-> tree[rel].mtime,
           content |-> tree[rel].body,
           assets |-> ResolveAllEarlier(imgs, docs, dirname(rel),
                                        extractAssetRefs(tree[rel].body))]]

\* Earlier convertContentForQuartz: every wiki embed becomes a markdown image
\* under ../image/ with the base name of its reference.
convertContentForQuartzEarlier(content, assets) ==
    [i \in 1..Len(content) |->
        LET tok == content[i] IN
        IF tok.t # "wiki" THEN tok
        ELSE IF \E j \in 1..Len(assets) : assets[j].ref = tok.ref
             THEN LET j == CHOOSE j \in 1..Len(assets) : assets[j].ref = tok.ref
                  IN ImageLink(assets[j].basename)
             ELSE ImageLink(basename(tok.ref))]

\* image/<basename> of each resolved asset, in order.
assetPathsInContent(data) ==
    [i \in DOMAIN data.assets |-> AssetDest(data.assets[i].basename)]

\* Earlier run(), when nothing fails.
RunOutcomeEarlier(tree, imgs, d0, dirs0, m0) ==
    LET snap == getPublishableSetEarlier(tree, imgs)
        ents == EntriesOf(readManifest(m0))
        gone == toDeleteMd(ents, snap)
        stillReferenced == UNION {SetOf(assetPathsInContent(snap[rel])) : rel \in DOMAIN snap}
        d1 == Unlink(d0, UNION {{rel} \cup {a \in SetOf(ents[rel].assets) :
                                              a \notin stillReferenced} : rel \in gone})
        dirs1 == dirs0 \ {d \in {dirname(r) : r \in gone} :
                            d # <<Dot>> /\ IsEmptyDir(d1, dirs0, d)}
        again == {rel \in DOMAIN snap :
                    ~HasPrev(ents, rel) \/ isUpdated(ents[rel], snap[rel])}
    IN [dest |-> [p \in DOMAIN d1 |->
                    IF p \in again
                    THEN DocFile(convertContentForQuartzEarlier(snap[p].content,
                                                                snap[p].assets))
                    ELSE IF \E rel \in again : p \in SetOf(assetPathsInContent(snap[rel]))
                    THEN LET rel == CHOOSE rel \in again :
                                       p \in SetOf(assetPathsInContent(snap[rel]))
                             i == CHOOSE i \in DOMAIN snap[rel].assets :
                                       assetPathsInContent(snap[rel])[i] = p
                         IN AssetFile(snap[rel].assets[i].sourcePath)
                    ELSE d1[p]],
        dirs |-> dirs1 \cup {<<Image>>} \cup UNION {DirsOf(rel) : rel \in again},
        manifest |-> writeManifest(
                       [rel \in DOMAIN snap |->
                          IF rel \in again
                          THEN [mtime |-> snap[rel].mtime,
                                assets |-> assetPathsInContent(snap[rel])]
                          ELSE ents[rel]])]

\* The image files the source tree may hold, and the bodies of its documents.
VariantImgs == {ImgS, ImgP}

VariantBodies ==
    { <<Text>>, <<Wiki(<<ImgS>>)>>, <<Wiki(<<ImgU>>)>>, <<Wiki(<<ImgP>>)>> }

\* The variants are run on a tree of one document, a.md.
VariantDocs ==
    {Unpublished} \cup {SrcDoc("true", t, b) : t \in 1..MaxTime, b \in VariantBodies}

VariantPaths == {<<NameA>>} \cup {AssetDest(n) : n \in {ImgS, ImgU, ImgH, ImgP}}

\* A file name with none of the characters the normalization rewrites.
IsPlainName(n) == \A i \in 1..Len(n) : SlugChar(n[i]) = <<n[i]>>

PlainBody(body) ==
    \A i \in 1..Len(body) : body[i].t = "text" \/ IsPlainName(basename(body[i].ref))

Outcome(d, dirs, m) == [dest |-> d, dirs |-> dirs, manifest |-> m]

InitVariants ==
    /\ Init
    /\ disk.kind = "absent"
    /\ dest[<<NameA>>] = Absent

\* Both variants start on an empty destination without a manifest.
StartVariants ==
    /\ probe.step = "none"
    /\ probe' = [step |-> "variants",
                 tree |-> [p \in {<<NameA>>} |-> Absent],
                 imgs |-> {},
                 plain |-> TRUE,
                 later |-> Outcome([p \in VariantPaths |-> Absent], {<<Dot>>}, NoManifest),
                 earlier |-> Outcome([p \in VariantPaths |-> Absent], {<<Dot>>}, NoManifest)]
    /\ UNCHANGED <<engineVars, srvVars>>

VariantPutDoc(doc) ==
    /\ probe.step = "variants"
    /\ probe.tree[<<NameA>>] # doc
    /\ probe' = [probe EXCEPT !.tree[<<NameA>>] = doc,
                              !.plain = @ /\ PlainBody(doc.body)]
    /\ UNCHANGED <<engineVars, srvVars>>

VariantRemoveDoc ==
    /\ probe.step = "variants"
    /\ probe.tree[<<NameA>>] # Absent
    /\ probe' = [probe EXCEPT !.tree[<<NameA>>] = Absent]
    /\ UNCHANGED <<engineVars, srvVars>>

VariantPutImage(n) ==
    /\ probe.step = "variants"
    /\ n \notin probe.imgs
    /\ probe' = [probe EXCEPT !.imgs = @ \cup {n},
                              !.plain = @ /\ IsPlainName(n)]
    /\ UNCHANGED <<engineVars, srvVars>>

VariantRemoveImage(n) ==
    /\ probe.step = "variants"
    /\ n \in probe.imgs
    /\ probe' = [probe EXCEPT !.imgs = @ \ {n}]
    /\ UNCHANGED <<engineVars, srvVars>>

\* One run of each variant on the source tree as it is.
RunBoth ==
    /\ probe.step = "variants"
    /\ probe' = [probe EXCEPT
                   !.later = RunOutcomeOf(getPublishableSet(probe.tree, probe.imgs),
                                          probe.later.dest, probe.later.dirs,
                                          probe.later.manifest),
                   !.earlier = RunOutcomeEarlier(probe.tree, probe.imgs,
                                                 probe.earlier.dest, probe.earlier.dirs,
                                                 probe.earlier.manifest)]
    /\ UNCHANGED <<engineVars, srvVars>>

NextVariants ==
    \/ StartVariants
    \/ \E doc \in VariantDocs : VariantPutDoc(doc)
    \/ VariantRemoveDoc
    \/ \E n \in VariantImgs : VariantPutImage(n)
    \/ \E n \in VariantImgs : VariantRemoveImage(n)
    \/ RunBoth

SpecVariants == InitVariants /\ [][NextVariants]_vars

\* C30: as long as no image file and no embedded name has held a character the
\* normalization rewrites, the two variants have the same destination files,
\* the same destination directories and the same manifest after each run.
C30_VariantsAgree ==
    (probe.step = "variants" /\ probe.plain) => probe.later = probe.earlier

\* C31: a runSync or runPublish call that is rejected because a task is running
\* leaves the state record (the times and outcomes of the last sync, publish
\* and cron run, isRunning) and the task log as they were.
StateRecord ==
    [lastSyncAt |-> dash.lastSyncAt, lastSync |-> dash.lastSync,
     lastPublishAt |-> dash.lastPublishAt, lastPublish |-> dash.lastPublish,
     lastCronRunAt |-> dash.lastCronRunAt, lastCron |-> dash.lastCron,
     watcherEnabled |-> watcherEnabled, isRunning |-> isRunning]

C31_RejectedCallChangesNothing ==
    [][(\E kind \in {"sync", "publish"} : ReqRejected(kind)) =>
          /\ StateRecord' = StateRecord
          /\ dash'.logs = dash.logs
          /\ dash'.ret = "rejected"]_vars

C31_Witness ==
    /\ dash.on
    /\ dash.ret = "rejected"
    /\ isRunning
    /\ dash.lastSyncAt = 0
    /\ dash.lastPublishAt > 0
    /\ Len(dash.logs) > 0

\* C32: after stopWatcher has returned and until startWatcher is called again,
\* the watcher path starts no sync: stopWatcher leaves no timer set, and a timer
\* callback that fires in that time calls no runSync.
WatcherSyncStarted == TimerFire /\ ~isRunning /\ isRunning'

C32_NoSyncAfterStop ==
    /\ [][StopWatcher => ~timer']_vars
    /\ [][halted = "yes" => ~WatcherSyncStarted]_vars

\* C33: at most one watcher is alive: every watcher created and not closed is
\* the one the watcher variable holds.
C33_OneWatcher == alive = (IF watcher THEN 1 ELSE 0)

----------------------------------------------------------------------------
\* The source directory: the one the server watches and the one the sync
\* script scans, for an environment and a config.json.  A path is absolute or
\* relative and has segments.

Path(abs, segs) == [abs |-> abs, segs |-> segs]

\* PROJECT_ROOT, the parent of the directory of both scripts.
PROJECT_ROOT == Path(TRUE, <<"srv", "proj">>)

\* Directory names a user may give: relative, with a step up, absolute.
GivenDirs ==
    { Path(FALSE, <<"obsidian">>), Path(FALSE, <<"vault">>),
      Path(FALSE, <<".", "vault">>), Path(FALSE, <<"..", "vault">>),
      Path(TRUE, <<"mnt", "vault">>) }

\* OBSIDIAN_DIR: not set, set to the empty string, or set to a directory.
NoDir == Path(FALSE, <<>>)
Value(v, dir) == [v |-> v, dir |-> dir]

EnvValues == {Value("unset", NoDir), Value("empty", NoDir)}
             \cup {Value("dir", d) : d \in GivenDirs}

\* config.json: no file, no JSON, or an object whose obsidianDir is missing,
\* null, a number, or a directory.
ConfigFiles ==
    {[kind |-> k, obsidianDir |-> Value("missing", NoDir)] : k \in {"absent", "garbage"}}
    \cup {[kind |-> "object", obsidianDir |-> Value(v, NoDir)] :
            v \in {"missing", "null", "number"}}
    \cup {[kind |-> "object", obsidianDir |-> Value("dir", d)] : d \in GivenDirs}

\* path.resolve and path.join leave no "." and no ".." in an absolute path.
RECURSIVE Collapse(_, _)
Collapse(done, rest) ==
    IF rest = <<>> THEN done
    ELSE IF Head(rest) = "." THEN Collapse(done, Tail(rest))
    ELSE IF Head(rest) = ".."
         THEN Collapse(IF done = <<>> THEN done ELSE SubSeq(done, 1, Len(done) - 1),
                       Tail(rest))
    ELSE Collapse(Append(done, Head(rest)), Tail(rest))

\* path.resolve(PROJECT_ROOT, p)
resolve(p) ==
    IF p.abs THEN Path(TRUE, Collapse(<<>>, p.segs))
    ELSE Path(TRUE, Collapse(<<>>, PROJECT_ROOT.segs \o p.segs))

\* loadSyncConfig (server.mjs) and loadConfig (sync.mjs), the same code: the
\* directory of config.json, or the default when the file cannot be read or
\* parsed, when path.isAbsolute throws (a number), or when there is no value.
loadConfig(file) ==
    IF file.kind # "object" \/ file.obsidianDir.v # "dir"
    THEN resolve(Path(FALSE, <<"obsidian">>))
    ELSE resolve(file.obsidianDir.dir)

\* resolvePaths (sync.mjs): a non-empty OBSIDIAN_DIR goes before the configuration.
resolvePaths(env, config) ==
    IF env.v # "dir" THEN config ELSE resolve(env.dir)

\* startWatcher (server.mjs): the directory chokidar watches.
watchedDir(env, file) == loadConfig(file)

\* run (sync.mjs), in the child process, which inherits the environment.
scannedDir(env, file) == resolvePaths(env, loadConfig(file))

InitConfig ==
    /\ Init
    /\ disk.kind = "absent"
    /\ dest[<<NameA>>] = Absent

PickConfig(env, file) ==
    /\ probe.step = "none"
    /\ probe' = [step |-> "config", env |-> env, file |-> file]
    /\ UNCHANGED <<engineVars, srvVars>>

\* The watcher is started and a sync is run.
WatchAndScan ==
    /\ probe.step = "config"
    /\ probe' = [step |-> "dirs", env |-> probe.env, file |-> probe.file,
                 watched |-> watchedDir(probe.env, probe.file),
                 scanned |-> scannedDir(probe.env, probe.file)]
    /\ UNCHANGED <<engineVars, srvVars>>

NextConfig ==
    \/ \E env \in EnvValues, file \in ConfigFiles : PickConfig(env, file)
    \/ WatchAndScan

SpecConfig == InitConfig /\ [][NextConfig]_vars

\* C34: the directory the watcher observes is the directory the sync script
\* scans, whatever OBSIDIAN_DIR and config.json are.
C34_SameDirectory == probe.step = "dirs" => probe.watched = probe.scanned

----------------------------------------------------------------------------
\* The assets of one document that embeds one or two images, and the shared
\* image directory of the destination after they were copied.

AssetRefs == {ImgP, ImgH, ImgS}

AssetBodies ==
    {<<Wiki(<<r>>)>> : r \in AssetRefs}
    \cup {<<Wiki(<<r1>>), Wiki(<<r2>>)>> : r1 \in AssetRefs, r2 \in AssetRefs}

InitAssets ==
    /\ Init
    /\ disk.kind = "absent"
    /\ dest[<<NameA>>] = Absent

PickAssets(body, imgs) ==
    /\ probe.step = "none"
    /\ probe' = [step |-> "embeds", body |-> body, imgs |-> imgs]
    /\ UNCHANGED <<engineVars, srvVars>>

\* Lines 155-165 and 277-283 for the document a.md with the body picked: its
\* references are resolved, and the assets copied in the order of the Snapshot.
CopyAssets ==
    /\ probe.step = "embeds"
    /\ LET snap == getPublishableSet([p \in {<<NameA>>} |-> SrcDoc("true", 1, probe.body)],
                                    probe.imgs)
           assets == snap[<<NameA>>].assets
           d0 == [p \in {AssetDest(slugifyBasename(r)) : r \in AssetRefs} |-> Absent]
       IN probe' = [step |-> "copied", body |-> probe.body, imgs |-> probe.imgs,
                    assets |-> assets,
                    image |-> AfterCopies(d0, assets, Len(assets))]
    /\ UNCHANGED <<engineVars, srvVars>>

NextAssets ==
    \/ \E body \in AssetBodies, imgs \in SUBSET AssetRefs : PickAssets(body, imgs)
    \/ CopyAssets

SpecAssets == InitAssets /\ [][NextAssets]_vars

\* C35: the asset records of a Snapshot that share a normalized file name have
\* the same source path, and the file of that name in the image directory of
\* the destination is a copy of that source, whatever the order of the copies.
C35_UnambiguousAssets ==
    probe.step = "copied" =>
        /\ \A i, j \in DOMAIN probe.assets :
             probe.assets[i].slugifiedBasename = probe.assets[j].slugifiedBasename
                => probe.assets[i].sourcePath = probe.assets[j].sourcePath
        /\ \A i \in DOMAIN probe.assets :
             probe.image[AssetDest(probe.assets[i].slugifiedBasename)]
                = AssetFile(probe.assets[i].sourcePath)

----------------------------------------------------------------------------
\* Runs on a source tree whose image s.g changes its content between runs.
\* img: the version of the content of <source>/image/s.g (0: no such file);
\* ver: the version <destination>/image/s.g is a copy of (0: no such file);
\* ran: no edit since the last run.

MaxVer == 2

ContentDocsAt(p) ==
    {Unpublished} \cup {SrcDoc("true", t, b) : t \in TimesAt(p),
                                              b \in { <<Text>>, <<Wiki(<<ImgS>>)>> }}

InitContent ==
    /\ Init
    /\ disk.kind = "absent"
    /\ dest[<<NameA>>] = Absent

StartContent ==
    /\ probe.step = "none"
    /\ probe' = [step |-> "content",
                 tree |-> [p \in DocPaths |-> Absent],
                 img |-> 0,
                 ran |-> FALSE,
                 ver |-> 0,
                 out |-> Outcome([p \in DocPaths \cup {AssetDest(ImgS)} |-> Absent],
                                 {<<Dot>>}, NoManifest)]
    /\ UNCHANGED <<engineVars, srvVars>>

ContentPutDoc(p, doc) ==
    /\ probe.step = "content"
    /\ probe.tree[p] # doc
    /\ probe' = [probe EXCEPT !.tree[p] = doc, !.ran = FALSE]
    /\ UNCHANGED <<engineVars, srvVars>>

\* The image is created, overwritten with new content, or removed.
ContentPutImage(v) ==
    /\ probe.step = "content"
    /\ probe.img # v
    /\ v = 0 \/ v > probe.img
    /\ probe' = [probe EXCEPT !.img = v, !.ran = FALSE]
    /\ UNCHANGED <<engineVars, srvVars>>

\* One run in which nothing fails.  copyFile (line 280) copies the content the
\* source has now, for the documents that are written again; unlink (line 236)
\* removes the copy.
ContentRun ==
    /\ probe.step = "content"
    /\ ~probe.ran
    /\ LET imgs == IF probe.img = 0 THEN {} ELSE {ImgS}
           snap == getPublishableSet(probe.tree, imgs)
           ents == EntriesOf(readManifest(probe.out.manifest))
           o == RunOutcomeOf(snap, probe.out.dest, probe.out.dirs, probe.out.manifest)
           copied == \E rel \in DOMAIN snap :
                        /\ NeedsSync(ents, rel, snap[rel])
                        /\ AssetDest(ImgS) \in SetOf(currAssetPaths(snap[rel]))
       IN probe' = [probe EXCEPT
                      !.ran = TRUE,
                      !.out = o,
                      !.ver = IF copied THEN probe.img
                              ELSE IF o.dest[AssetDest(ImgS)] = Absent THEN 0
                              ELSE @]
    /\ UNCHANGED <<engineVars, srvVars>>

NextContent ==
    \/ StartContent
    \/ \E p \in DocPaths : \E doc \in ContentDocsAt(p) \cup {Absent} : ContentPutDoc(p, doc)
    \/ \E v \in 0..MaxVer : ContentPutImage(v)
    \/ ContentRun

SpecContent == InitContent /\ [][NextContent]_vars

\* The documents whose manifest entry lists <destination>/image/s.g.
Listing(file) ==
    {rel \in DOMAIN EntriesOf(readManifest(file)) :
        AssetDest(ImgS) \in SetOf(EntriesOf(readManifest(file))[rel].assets)}

\* C36 as stated: after every successful run, a destination asset that the
\* manifest lists has the content its source file has now.
C36_AssetsCurrent ==
    (probe.step = "content" /\ probe.ran /\ Listing(probe.out.manifest) # {})
        => probe.ver = probe.img

\* C36, amended: after a run, a destination asset that the manifest lists has
\* the content of its source file when the run wrote again a document that
\* lists it (a new document, one whose timestamp is newer, one whose assets
\* changed), and the content it had before the run when the run wrote none.
C36_CurrentWhenMaterialized ==
    [][(probe.step = "content" /\ probe'.step = "content" /\ ~probe.ran /\ probe'.ran) =>
          LET old == EntriesOf(readManifest(probe.out.manifest))
              new == EntriesOf(readManifest(probe'.out.manifest))
              written == {rel \in Listing(probe'.out.manifest) :
                            \/ rel \notin DOMAIN old
                            \/ probe.tree[rel].mtime > old[rel].mtime
                            \/ SetOf(new[rel].assets) # SetOf(old[rel].assets)}
          IN Listing(probe'.out.manifest) # {} =>
                probe'.ver = IF written # {} THEN probe.img ELSE probe.ver]_vars

C36_Witness ==
    /\ probe.step = "content"
    /\ probe.ran
    /\ Listing(probe.out.manifest) # {}
    /\ probe.ver = 1
    /\ probe.img = 2
====
